---------------------------- MODULE Spec2Model ----------------------------
(***************************************************************************)
(* A model of the ATXP 2API server (src/api_server.py): the account pool   *)
(* (AccountPool.acquire / release), the token manager                      *)
(* (AccountPool.ensure_token) and the requests that lease accounts         *)
(* (handle_chat_completions).                                              *)
(*                                                                         *)
(* Positions of accounts are 0-based, as in the code (self._index), so the *)
(* registry self._accounts is a function over 0..N-1.  A reference to an   *)
(* Account object is modelled by its position: the registry is never       *)
(* reordered after load().                                                 *)
(*                                                                         *)
(* The server runs on one asyncio event loop: the code between two awaits  *)
(* that really suspend runs atomically, and is one action here.            *)
(***************************************************************************)
EXTENDS Integers, Sequences, FiniteSets, TLC

(***************************************************************************)
(* Bounds of the model.                                                    *)
(***************************************************************************)
MaxAccounts == 2        \* accounts of the registry, lease specification
NumRequests == 2        \* concurrent requests, lease specification
MaxErrors == 6          \* cap of the (unbounded) error counter
MaxSeqAccounts == 3     \* accounts of the registry, sequential acquires
MaxSeqCalls == 4        \* acquire() calls of one sequential run
MaxTokAccounts == 2     \* accounts of the registry, token specification
MaxTime == 1680         \* the clock stops here, in seconds
TickStep == 840         \* what the clock advances by, in seconds
MaxTokCalls == 2        \* ensure_token() calls of one run
MaxLines == 3           \* lines of the upstream event stream

(***************************************************************************)
(* Program constants.                                                      *)
(***************************************************************************)
UNHEALTHY == 5          \* acc.error_count < 5
TOKEN_TTL == 840        \* 900 - 60
None == -1              \* acquire() returning None

Errors == {"", "boom"}  \* the error argument of release(): empty or not

VARIABLES
    accounts,   \* self._accounts: position -> Account
    index,      \* self._index
    pc,         \* request -> where its handler stands
    acc,        \* request -> the account acquire() returned to it
    forced,     \* some acquire() has taken the forced branch
    pre,        \* sequential run: the registry and cursor it started from
    log,        \* sequential run: what each acquire() call returned
    now,        \* time.time()
    refresh_locks,  \* self._refresh_locks: email -> asyncio.Lock
    file,       \* the content of self._accounts_file
    token,      \* request -> what ensure_token returned to it
    called,     \* request -> its ensure_token call has posted a refresh
    handed,     \* request -> the token its predecessor in the section returned
    calls,      \* the number of ensure_token() calls made so far
    exc,        \* request -> str(e) of the exception its ensure_token raised
    mode,       \* translator: "stream" (_stream_response) or "buffered"
    sent,       \* translator: the lines the upstream sends, and how they end
    pos,        \* translator: the number of bytes read from the upstream
    buffer,     \* translator: buffer, the decoded text not yet consumed
    event_block,    \* translator: the lines of event_block the for loop has
                \* not finished, the line it stands at first
    out,        \* translator: what was written to the client, in order
    tpc,        \* translator: its position
    attempt,    \* chat request: attempt of the phase-1 loop
    sleeps,     \* chat request: the asyncio.sleep() delays it awaited, in order
    releases,   \* chat request: the error of each pool.release() call
    resp,       \* chat request: the response the handler returned: its
                \* status, and for a 502 the start of its message
    before,     \* chat request: its account, and the error counter of that
                \* account, when acquire() was called
    trail,      \* chat request: its calls of the chat upstream, in order
    conv_id,    \* chat request: the conversation id phase 1 gave it
    model,      \* the model identifier of a request body
    lc_model,   \* _model_map(model), once it is computed
    running,    \* the request the event loop is running, None between tasks
    pool_lock,  \* self._lock: asyncio.Lock
    loop        \* request -> the locals of its acquire(): start, the
                \* iterations left, acc

poolVars == <<accounts, index>>
reqVars == <<pc, acc, forced>>
seqVars == <<pre, log>>
tokVars == <<now, refresh_locks, file, token, called, handed, calls, exc>>
transVars == <<mode, sent, pos, buffer, event_block, out, tpc>>
mapVars == <<model, lc_model>>
callVars == <<trail, conv_id>>
chatVars == <<attempt, sleeps, releases, resp, before, callVars, mapVars>>
atomVars == <<running, pool_lock, loop>>
vars == <<accounts, index, pc, acc, forced, pre, log,
          now, refresh_locks, file, token, called, handed, calls, exc,
          mode, sent, pos, buffer, event_block, out, tpc,
          attempt, sleeps, releases, resp, before, trail, conv_id,
          model, lc_model, running, pool_lock, loop>>

Requests == 1..NumRequests

(***************************************************************************)
(* Account and AccountPool.load                                            *)
(***************************************************************************)
Account(email, refresh_token) ==
    [email |-> email, refresh_token |-> refresh_token,
     access_token |-> "", token_expires |-> 0,
     in_use |-> FALSE, error_count |-> 0, last_error |-> ""]

\* A record of the store.  An identity is a tuple: <<"user", i>>, or <<"?">>
\* for a record without the email key (item.get("email", "?")).
Record(email, refresh_token) ==
    [email |-> email, refresh_token |-> refresh_token]

\* A store of n records, each with a credential; those of anon lack the email.
Store(n, anon) ==
    [i \in 1..n |->
        Record(IF i \in anon THEN <<"?">> ELSE <<"user", i - 1>>, "r0")]

\* load(): the records without a credential are skipped, the others become
\* the accounts, in the order of the store.
load(data) ==
    LET kept == SelectSeq(data, LAMBDA item : item.refresh_token # "")
    IN  [i \in 0..(Len(kept) - 1) |->
            Account(kept[i + 1].email, kept[i + 1].refresh_token)]

\* Mutant of save: the rewrite is lost, the store keeps its content.
saveLost(accs) == file

\* _save(): the store rewritten from the registry.
save(accs) ==
    [i \in 1..Cardinality(DOMAIN accs) |->
        Record(accs[i - 1].email, accs[i - 1].refresh_token)]

Size(accs) == Cardinality(DOMAIN accs)

(***************************************************************************)
(* AccountPool.acquire                                                     *)
(***************************************************************************)
\* Mutants of Eligible: the `not` dropped; the lease flag not tested.
EligibleMissingNot(a) == a.error_count < UNHEALTHY /\ a.in_use
EligibleIgnoresLease(a) == a.error_count < UNHEALTHY

\* The test of the scan: healthy and not leased.
Eligible(a) == a.error_count < UNHEALTHY /\ ~a.in_use

\* Mutant of Scan: the cursor is left on the account found, not past it.
RECURSIVE ScanCursorOnFound(_, _, _)
ScanCursorOnFound(accs, idx, k) ==
    IF k = 0
    THEN [found |-> None, index |-> idx]
    ELSE LET next == (idx + 1) % Cardinality(DOMAIN accs)
         IN  IF accs[idx].error_count < UNHEALTHY /\ ~accs[idx].in_use
             THEN [found |-> idx, index |-> idx]
             ELSE ScanCursorOnFound(accs, next, k - 1)

\* The for loop: k iterations left, cursor at idx.  Returns the account found
\* (None when the loop ends without one) and the cursor it leaves.
RECURSIVE Scan(_, _, _)
Scan(accs, idx, k) ==
    IF k = 0
    THEN [found |-> None, index |-> idx]
    ELSE LET next == (idx + 1) % Size(accs)
         IN  IF Eligible(accs[idx])
             THEN [found |-> idx, index |-> next]
             ELSE Scan(accs, next, k - 1)

\* Mutant of Lease: the flag is not set.
LeaseNoMark(accs, a) == accs

\* The lease: acc.in_use = True.
Lease(accs, a) == [accs EXCEPT ![a].in_use = TRUE]

\* Mutants of acquire: no forced branch (None when nothing is eligible); the
\* forced branch takes the first account of the registry, not the one at start.
acquireNoFallback(accs, idx) ==
    IF Size(accs) = 0
    THEN [acc |-> None, accounts |-> accs, index |-> idx, forced |-> FALSE]
    ELSE LET s == Scan(accs, idx, Size(accs))
         IN  [acc |-> s.found,
              accounts |-> IF s.found # None THEN Lease(accs, s.found) ELSE accs,
              index |-> s.index, forced |-> FALSE]
acquireFallbackFirst(accs, idx) ==
    IF Size(accs) = 0
    THEN [acc |-> None, accounts |-> accs, index |-> idx, forced |-> FALSE]
    ELSE LET s == Scan(accs, idx, Size(accs))
             a == IF s.found # None THEN s.found ELSE 0
         IN  [acc |-> a, accounts |-> Lease(accs, a), index |-> s.index,
              forced |-> s.found = None]

\* Mutant of acquire: the forced branch leaves the cursor past the account it
\* returns.
acquireFallbackAdvances(accs, idx) ==
    IF Size(accs) = 0
    THEN [acc |-> None, accounts |-> accs, index |-> idx, forced |-> FALSE]
    ELSE LET s == Scan(accs, idx, Size(accs))
             a == IF s.found # None THEN s.found ELSE idx
         IN  [acc |-> a, accounts |-> Lease(accs, a),
              index |-> IF s.found # None THEN s.index
                        ELSE (idx + 1) % Size(accs),
              forced |-> s.found = None]

\* acquire(): the account returned, the registry and the cursor it leaves, and
\* whether the forced branch was taken.
acquire(accs, idx) ==
    IF Size(accs) = 0
    THEN [acc |-> None, accounts |-> accs, index |-> idx, forced |-> FALSE]
    ELSE LET s == Scan(accs, idx, Size(accs))
             a == IF s.found # None THEN s.found ELSE idx
         IN  [acc |-> a, accounts |-> Lease(accs, a), index |-> s.index,
              forced |-> s.found = None]

(***************************************************************************)
(* AccountPool.release                                                     *)
(***************************************************************************)
\* Mutants of release: a clean release keeps the counter; the counter
\* saturates at the threshold.
releaseKeepsCount(accs, a, error) ==
    [accs EXCEPT ![a] =
        [@ EXCEPT !.in_use = FALSE,
                  !.error_count = IF error # "" THEN @ + 1 ELSE @,
                  !.last_error = IF error # "" THEN error ELSE @]]
releaseSaturating(accs, a, error) ==
    [accs EXCEPT ![a] =
        [@ EXCEPT !.in_use = FALSE,
                  !.error_count = IF error # ""
                                  THEN (IF @ < UNHEALTHY THEN @ + 1 ELSE @)
                                  ELSE 0,
                  !.last_error = IF error # "" THEN error ELSE @]]

\* Mutant of release: a release with an error drops the cached token.
releaseDropsToken(accs, a, error) ==
    [accs EXCEPT ![a] =
        [@ EXCEPT !.in_use = FALSE,
                  !.error_count = IF error # "" THEN @ + 1 ELSE 0,
                  !.last_error = IF error # "" THEN error ELSE @,
                  !.access_token = IF error # "" THEN "" ELSE @,
                  !.token_expires = IF error # "" THEN 0 ELSE @]]

\* release(acc, error): the registry it leaves.
release(accs, a, error) ==
    [accs EXCEPT ![a] =
        [@ EXCEPT !.in_use = FALSE,
                  !.error_count = IF error # "" THEN @ + 1 ELSE 0,
                  !.last_error = IF error # "" THEN error ELSE @]]

(***************************************************************************)
(* AccountPool.ensure_token                                                *)
(*                                                                         *)
(* asyncio.Lock: acquire() takes a lock at once only when it is unlocked   *)
(* and nobody waits for it, and queues the caller otherwise; release()     *)
(* unlocks and wakes the first waiter, which stays in the queue until it   *)
(* runs and locks again.                                                   *)
(***************************************************************************)
NewLock == [locked |-> FALSE, waiters |-> <<>>]

\* if acc.email not in self._refresh_locks: ... = asyncio.Lock()
EnsureLock(locks, email) ==
    IF email \in DOMAIN locks THEN locks ELSE locks @@ (email :> NewLock)

\* Mutant of LockFree: the section is entered whoever holds it.
LockAlwaysFree(l) == TRUE

\* The lock can be taken without suspending.
LockFree(l) == ~l.locked /\ l.waiters = <<>>

\* Mutant of TokenValid: a token is still used at its expiry.
TokenValidAtExpiry(a, t) == a.access_token # "" /\ t <= a.token_expires

\* acc.access_token and time.time() < acc.token_expires
TokenValid(a, t) == a.access_token # "" /\ t < a.token_expires

\* Mutant of Recheck: no second check inside the section.
RecheckNever(a, t) == FALSE

\* The second check, made with the section held.
Recheck(a, t) == TokenValid(a, t)

\* The responses of the refresh endpoint that carry a token, and the values of
\* the refreshToken= cookies of its Set-Cookie headers.
Tokens == {"tokA", "tokB"}
Cookies == {<<>>, <<"r0">>, <<"r1">>}

\* The for loop over the Set-Cookie headers: the credential it leaves, and
\* whether _save() was called.
RECURSIVE Rotate(_, _, _)
Rotate(rt, cookies, saved) ==
    IF cookies = <<>>
    THEN [refresh_token |-> rt, saved |-> saved]
    ELSE IF Head(cookies) # rt
         THEN Rotate(Head(cookies), Tail(cookies), TRUE)
         ELSE Rotate(rt, Tail(cookies), saved)

\* The holder of the section of email leaves it: the lock is released and its
\* first waiter, if any, is woken; result is the token the holder returns ("":
\* it raises), which a woken waiter for the same account is handed.
LeaveSection(p, email, result) ==
    LET l == refresh_locks[email]
        w == IF l.waiters = <<>> THEN {} ELSE {Head(l.waiters)}
    IN  /\ refresh_locks' = [refresh_locks EXCEPT ![email].locked = FALSE]
        /\ pc' = [q \in Requests |->
                    IF q = p THEN (IF result = "" THEN "raised" ELSE "returned")
                    ELSE IF q \in w THEN "woken" ELSE pc[q]]
        /\ handed' = [q \in Requests |->
                    IF q \in w /\ acc[q] = acc[p] THEN result ELSE handed[q]]
        /\ token' = [token EXCEPT ![p] = result]

\* ensure_token(acc) of request p on account a, up to its first suspension:
\* the cached token is returned, or the refresh is posted, or the request
\* waits for the section.
EnsureCall(p, a) ==
    /\ a \in DOMAIN accounts
    /\ calls < MaxTokCalls
    /\ calls' = calls + 1
    /\ acc' = [acc EXCEPT ![p] = a]
    /\ IF TokenValid(accounts[a], now)
       THEN /\ pc' = [pc EXCEPT ![p] = "returned"]
            /\ token' = [token EXCEPT ![p] = accounts[a].access_token]
            /\ UNCHANGED <<refresh_locks, called>>
       ELSE LET email == accounts[a].email
                locks == EnsureLock(refresh_locks, email)
            IN  IF ~LockFree(locks[email])
                THEN /\ refresh_locks' =
                          [locks EXCEPT ![email].waiters = Append(@, p)]
                     /\ pc' = [pc EXCEPT ![p] = "lock_wait"]
                     /\ UNCHANGED <<token, called>>
                ELSE IF Recheck(accounts[a], now)
                THEN /\ refresh_locks' = locks
                     /\ pc' = [pc EXCEPT ![p] = "returned"]
                     /\ token' = [token EXCEPT ![p] = accounts[a].access_token]
                     /\ UNCHANGED called
                ELSE /\ refresh_locks' = [locks EXCEPT ![email].locked = TRUE]
                     /\ pc' = [pc EXCEPT ![p] = "refresh"]
                     /\ called' = [called EXCEPT ![p] = TRUE]
                     /\ UNCHANGED token
    /\ UNCHANGED <<transVars, chatVars, atomVars,
                   accounts, index, forced, pre, log, now, file, handed, exc>>

\* A request calls ensure_token on account a.
EnsureStart(p, a) == pc[p] = "idle" /\ EnsureCall(p, a)

\* A woken waiter runs: it leaves the queue, holds the section, checks again,
\* and returns the cached token or posts the refresh.
EnsureResume(p) ==
    /\ pc[p] = "woken"
    /\ LET a == acc[p]
           email == accounts[a].email
           locks == [refresh_locks EXCEPT
                        ![email].waiters = Tail(@), ![email].locked = TRUE]
       IN  IF Recheck(accounts[a], now)
           THEN LET l == locks[email]
                    w == IF l.waiters = <<>> THEN {} ELSE {Head(l.waiters)}
                    result == accounts[a].access_token
                IN  /\ refresh_locks' = [locks EXCEPT ![email].locked = FALSE]
                    /\ pc' = [q \in Requests |->
                                IF q = p THEN "returned"
                                ELSE IF q \in w THEN "woken" ELSE pc[q]]
                    /\ handed' = [q \in Requests |->
                                IF q \in w /\ acc[q] = a THEN result
                                ELSE handed[q]]
                    /\ token' = [token EXCEPT ![p] = result]
                    /\ UNCHANGED called
           ELSE /\ refresh_locks' = locks
                /\ pc' = [pc EXCEPT ![p] = "refresh"]
                /\ called' = [called EXCEPT ![p] = TRUE]
                /\ UNCHANGED <<token, handed>>
    /\ UNCHANGED <<transVars, chatVars, atomVars,
                   accounts, index, acc, forced, pre, log, now, file, calls,
                   exc>>

\* Mutant of RefreshOk: the store is rewritten from the registry as it was
\* loaded, with the credential of this account replaced.
RefreshOkFromSnapshot(p, tok, cookies) ==
    /\ pc[p] = "refresh"
    /\ LET a == acc[p]
           r == Rotate(accounts[a].refresh_token, cookies, FALSE)
           accs == [accounts EXCEPT ![a].access_token = tok,
                                    ![a].token_expires = now + TOKEN_TTL,
                                    ![a].refresh_token = r.refresh_token]
       IN  /\ accounts' = accs
           /\ file' = IF r.saved
                      THEN save([pre.accounts EXCEPT
                                    ![a].refresh_token = r.refresh_token])
                      ELSE file
           /\ LeaveSection(p, accounts[a].email, tok)
    /\ UNCHANGED <<transVars, chatVars, atomVars,
                   index, acc, forced, pre, log, now, called, calls, exc>>

\* The refresh endpoint answers 200 with a token: the token and its expiry
\* are stored, a credential that a cookie replaces is stored and saved, and
\* the token is returned.
RefreshOk(p, tok, cookies) ==
    /\ pc[p] = "refresh"
    /\ LET a == acc[p]
           r == Rotate(accounts[a].refresh_token, cookies, FALSE)
           accs == [accounts EXCEPT ![a].access_token = tok,
                                    ![a].token_expires = now + TOKEN_TTL,
                                    ![a].refresh_token = r.refresh_token]
       IN  /\ accounts' = accs
           /\ file' = IF r.saved THEN save(accs) ELSE file
           /\ LeaveSection(p, accounts[a].email, tok)
    /\ UNCHANGED <<transVars, chatVars, atomVars,
                   index, acc, forced, pre, log, now, called, calls, exc>>

\* The ways _save() fails: open() raises and the store is as it was, or the
\* write raises after open(path, "w") has truncated the store.
SaveFailures == {"open", "write"}

\* The store after a write that failed: it is empty or holds the start of
\* the text, and cannot be loaded.  It is told from every store of records
\* by its one record without identity and credential.
Unreadable == <<Record(<<>>, "")>>

\* The refresh endpoint answers 200 with a token, and the _save() of the
\* n-th cookie raises: the token and its expiry are stored, the cookies
\* before the n-th were handled (stored and saved where they replaced the
\* credential), the n-th is stored in memory, the store is left as the
\* failure leaves it, the loop ends there and ensure_token raises.
RefreshSaveFails(p, tok, cookies) ==
    /\ pc[p] = "refresh"
    /\ LET a == acc[p]
       IN  \E n \in 1..Len(cookies) : \E how \in SaveFailures :
              LET r == Rotate(accounts[a].refresh_token,
                              SubSeq(cookies, 1, n - 1), FALSE)
                  was == IF r.saved
                         THEN save([accounts EXCEPT
                                      ![a].refresh_token = r.refresh_token])
                         ELSE file
              IN  /\ cookies[n] # r.refresh_token
                  /\ accounts' = [accounts EXCEPT
                                     ![a].access_token = tok,
                                     ![a].token_expires = now + TOKEN_TTL,
                                     ![a].refresh_token = cookies[n]]
                  /\ file' = IF how = "open" THEN was ELSE Unreadable
           /\ LeaveSection(p, accounts[a].email, "")
    /\ exc' = [exc EXCEPT ![p] = "save failed"]
    /\ UNCHANGED <<transVars, chatVars, atomVars,
                   index, acc, forced, pre, log, now, called, calls>>

\* The refresh endpoint answers with a status other than 200, or with a body
\* that holds no token: ensure_token raises a RuntimeError with a message.
RefreshFail(p) ==
    /\ pc[p] = "refresh"
    /\ LeaveSection(p, accounts[acc[p]].email, "")
    /\ exc' = [exc EXCEPT ![p] = "refresh failed"]
    /\ UNCHANGED <<transVars, chatVars, atomVars,
                   accounts, index, acc, forced, pre, log, now, file, called,
                   calls>>

\* The POST or the read of its response raises (connection error, timeout):
\* ensure_token raises that exception, whose str() is error; it is empty for
\* asyncio.TimeoutError.
RefreshRaises(p, error) ==
    /\ pc[p] = "refresh"
    /\ LeaveSection(p, accounts[acc[p]].email, "")
    /\ exc' = [exc EXCEPT ![p] = error]
    /\ UNCHANGED <<transVars, chatVars, atomVars,
                   accounts, index, acc, forced, pre, log, now, file, called,
                   calls>>

\* The caller of ensure_token goes on, and its request ends.
EnsureDone(p) ==
    /\ pc[p] \in {"returned", "raised"}
    /\ pc' = [pc EXCEPT ![p] = "idle"]
    /\ acc' = [acc EXCEPT ![p] = None]
    /\ token' = [token EXCEPT ![p] = ""]
    /\ called' = [called EXCEPT ![p] = FALSE]
    /\ handed' = [handed EXCEPT ![p] = ""]
    /\ exc' = [exc EXCEPT ![p] = ""]
    /\ UNCHANGED <<transVars, chatVars, atomVars,
                   accounts, index, forced, pre, log, now, refresh_locks, file,
                   calls>>

\* Time passes while every request is suspended or idle: the event loop runs
\* a woken task before it waits for I/O again.
Tick ==
    /\ now + TickStep <= MaxTime
    /\ \A p \in Requests : pc[p] # "woken"
    /\ now' = now + TickStep
    /\ UNCHANGED <<transVars, chatVars, atomVars,
                   accounts, index, pc, acc, forced, pre, log,
                   refresh_locks, file, token, called, handed, calls, exc>>

(***************************************************************************)
(* Requests: handle_chat_completions, as far as the lease goes.  A request *)
(* acquires an account, awaits the upstream (token refresh, phase 1, phase *)
(* 2, the stream), and ends on one of the handler's terminal paths.        *)
(***************************************************************************)
\* The requests in flight that hold account a.
Holders(a) == {p \in Requests : pc[p] = "leased" /\ acc[p] = a}

\* pool.acquire() of a new request; on an empty pool the handler answers 503
\* and returns.
HandleStart(p) ==
    /\ pc[p] = "idle"
    /\ LET r == acquire(accounts, index)
       IN  /\ accounts' = r.accounts
           /\ index' = r.index
           /\ acc' = [acc EXCEPT ![p] = r.acc]
           /\ forced' = (forced \/ r.forced)
           /\ pc' = [pc EXCEPT ![p] = IF r.acc = None THEN "idle" ELSE "leased"]
    /\ UNCHANGED <<seqVars, tokVars, transVars, chatVars, atomVars>>

\* A terminal path of the handler that releases the account, with an error
\* string (possibly empty) or without one, and returns.
HandleFinish(p, error) ==
    /\ pc[p] = "leased"
    /\ error # "" => accounts[acc[p]].error_count < MaxErrors
    /\ accounts' = release(accounts, acc[p], error)
    /\ pc' = [pc EXCEPT ![p] = "idle"]
    /\ acc' = [acc EXCEPT ![p] = None]
    /\ UNCHANGED <<index, forced, pre, log, tokVars, transVars, chatVars, atomVars>>

\* Phase 1 answers 200 with a JSON body that is not an object: init_data.get
\* raises outside every try block, and the handler ends without release.
HandleCrash(p) ==
    /\ pc[p] = "leased"
    /\ pc' = [pc EXCEPT ![p] = "idle"]
    /\ acc' = [acc EXCEPT ![p] = None]
    /\ UNCHANGED <<accounts, index, forced, pre, log, tokVars, transVars, chatVars, atomVars>>

\* The request is over: its locals are gone.
EndRequest(p) ==
    /\ pc' = [pc EXCEPT ![p] = "idle"]
    /\ acc' = [acc EXCEPT ![p] = None]
    /\ token' = [token EXCEPT ![p] = ""]
    /\ called' = [called EXCEPT ![p] = FALSE]
    /\ handed' = [handed EXCEPT ![p] = ""]
    /\ exc' = [exc EXCEPT ![p] = ""]

\* No chat request was handled yet.
ChatIdle ==
    /\ attempt = 0
    /\ sleeps = <<>>
    /\ releases = <<>>
    /\ resp = ""
    /\ before = [acc |-> None, count |-> 0]
    /\ trail = <<>>
    /\ conv_id = ""
    /\ model = <<>>
    /\ lc_model = <<>>

\* No translator is at work.
TransIdle ==
    /\ mode = "stream"
    /\ sent = [lines |-> <<>>, cut |-> FALSE]
    /\ pos = 0
    /\ buffer = <<>>
    /\ event_block = <<>>
    /\ out = <<>>
    /\ tpc = "idle"

\* No acquire() is under way: the event loop runs no task, self._lock is free.
PoolIdle ==
    /\ running = None
    /\ pool_lock = NewLock
    /\ loop = [p \in Requests |-> [start |-> 0, left |-> 0, acc |-> None]]

\* The state after AccountPool(accounts_file) and load() of the store data,
\* with no request in flight.
InitPool(data) ==
    /\ file = data
    /\ accounts = load(data)
    /\ index = 0
    /\ refresh_locks = [e \in {} |-> NewLock]
    /\ now = 0

InitRequests ==
    /\ pc = [p \in Requests |-> "idle"]
    /\ acc = [p \in Requests |-> None]
    /\ forced = FALSE
    /\ token = [p \in Requests |-> ""]
    /\ called = [p \in Requests |-> FALSE]
    /\ handed = [p \in Requests |-> ""]
    /\ calls = 0
    /\ exc = [p \in Requests |-> ""]

Init ==
    /\ \E n \in 0..MaxAccounts : InitPool(Store(n, {}))
    /\ InitRequests
    /\ TransIdle
    /\ ChatIdle
    /\ PoolIdle
    /\ pre = [accounts |-> accounts, index |-> index]
    /\ log = <<>>

Next ==
    \/ \E p \in Requests : HandleStart(p)
    \/ \E p \in Requests : \E e \in Errors : HandleFinish(p, e)
    \/ \E p \in Requests : HandleCrash(p)

Spec == Init /\ [][Next]_vars

(***************************************************************************)
(* The token manager: requests that call ensure_token on the account they  *)
(* hold.  Which account a request holds is the pool's choice (Spec); under *)
(* forced fallback several requests hold one account, so here a request    *)
(* may be given any account.  The last k records of the store lack the    *)
(* email key, and then share the identity "?": none of them, or two and    *)
(* more (one record without email shares its identity with no other).      *)
(***************************************************************************)
TokInit ==
    /\ \E n \in 1..MaxTokAccounts : \E k \in {0} \cup (2..n) :
          InitPool(Store(n, (n - k + 1)..n))
    /\ InitRequests
    /\ TransIdle
    /\ ChatIdle
    /\ PoolIdle
    /\ pre = [accounts |-> accounts, index |-> index]
    /\ log = <<>>

TokNext ==
    \/ \E p \in Requests : \E a \in DOMAIN accounts : EnsureStart(p, a)
    \/ \E p \in Requests : EnsureResume(p)
    \/ \E p \in Requests : \E tok \in Tokens : \E cookies \in Cookies :
          RefreshOk(p, tok, cookies)
    \/ \E p \in Requests : \E tok \in Tokens : \E cookies \in Cookies :
          RefreshSaveFails(p, tok, cookies)
    \/ \E p \in Requests : RefreshFail(p)
    \/ \E p \in Requests : \E e \in Errors : RefreshRaises(p, e)
    \/ \E p \in Requests : EnsureDone(p)
    \/ Tick

SpecToken == TokInit /\ [][TokNext]_vars

(***************************************************************************)
(* The translators of the upstream event stream: _stream_response and      *)
(* _collect_response.                                                      *)
(*                                                                         *)
(* Text is a sequence of units.  A unit of the upstream is a byte or a run *)
(* of ASCII bytes that the code handles as a whole: "\n", " ", "data:",    *)
(* "[DONE]", "event:", the opening "{" and the closing "}" of the JSON of  *)
(* a text-delta event around the characters of its text, "step" (the JSON  *)
(* of an event that is no text delta), "null" (a JSON value that is no     *)
(* object), "badshape" (the JSON of an on_message_delta event whose data   *)
(* is no object).  The characters of a text are "H", "l" and a character   *)
(* of two bytes, "e1" "e2", which decodes to "E"; "FFFD" is the            *)
(* replacement character of a failed decoding.                             *)
(***************************************************************************)
NL == "\n"
SP == " "
Whitespace == {NL, SP}
TextChars == {"H", "l", "E", "FFFD"}

\* chunk.decode("utf-8", errors="replace"): a complete character decodes to
\* itself, the bytes of an incomplete one to replacement characters.
RECURSIVE decode(_)
decode(bytes) ==
    IF bytes = <<>> THEN <<>>
    ELSE IF Head(bytes) = "e1" /\ Len(bytes) >= 2 /\ bytes[2] = "e2"
         THEN <<"E">> \o decode(SubSeq(bytes, 3, Len(bytes)))
    ELSE IF Head(bytes) \in {"e1", "e2"}
         THEN <<"FFFD">> \o decode(Tail(bytes))
    ELSE <<Head(bytes)>> \o decode(Tail(bytes))

\* str.strip()
RECURSIVE lstrip(_)
lstrip(s) ==
    IF s # <<>> /\ Head(s) \in Whitespace THEN lstrip(Tail(s)) ELSE s

RECURSIVE rstrip(_)
rstrip(s) ==
    IF s # <<>> /\ s[Len(s)] \in Whitespace
    THEN rstrip(SubSeq(s, 1, Len(s) - 1)) ELSE s

strip(s) == rstrip(lstrip(s))

\* The position of the first "\n\n" in s, 0 when there is none.
RECURSIVE FindBlank(_, _)
FindBlank(s, i) ==
    IF i >= Len(s) THEN 0
    ELSE IF s[i] = NL /\ s[i + 1] = NL THEN i
    ELSE FindBlank(s, i + 1)

\* s.split("\n"): the lines of s.
RECURSIVE SplitLines(_, _)
SplitLines(s, line) ==
    IF s = <<>> THEN <<line>>
    ELSE IF Head(s) = NL THEN <<line>> \o SplitLines(Tail(s), <<>>)
    ELSE SplitLines(Tail(s), Append(line, Head(s)))

\* line.startswith("data:")
IsDataLine(line) == line # <<>> /\ Head(line) = "data:"

\* Mutant of loads: the error of a text that is no JSON is not the one the
\* translators catch.
loadsUncaught(s) ==
    IF s = <<"step">>
    THEN [ok |-> TRUE, kind |-> "step", text |-> <<>>]
    ELSE IF s = <<"null">>
    THEN [ok |-> TRUE, kind |-> "null", text |-> <<>>]
    ELSE IF /\ Len(s) >= 2
            /\ s[1] = "{"
            /\ s[Len(s)] = "}"
            /\ \A i \in 2..(Len(s) - 1) : s[i] \in TextChars
    THEN [ok |-> TRUE, kind |-> "delta", text |-> SubSeq(s, 2, Len(s) - 1)]
    ELSE [ok |-> TRUE, kind |-> "badshape", text |-> <<>>]

\* json.loads(data_str): ok is FALSE for JSONDecodeError.
loads(s) ==
    IF s = <<"step">>
    THEN [ok |-> TRUE, kind |-> "step", text |-> <<>>]
    ELSE IF s = <<"null">>
    THEN [ok |-> TRUE, kind |-> "null", text |-> <<>>]
    ELSE IF s = <<"badshape">>
    THEN [ok |-> TRUE, kind |-> "badshape", text |-> <<>>]
    ELSE IF /\ Len(s) >= 2
            /\ s[1] = "{"
            /\ s[Len(s)] = "}"
            /\ \A i \in 2..(Len(s) - 1) : s[i] \in TextChars
    THEN [ok |-> TRUE, kind |-> "delta", text |-> SubSeq(s, 2, Len(s) - 1)]
    ELSE [ok |-> FALSE, kind |-> "", text |-> <<>>]

\* _extract_delta_text(data): the text of a text delta, "" for a value that is
\* no object or no text delta; raises is TRUE for an on_message_delta event
\* whose data is no object (inner.get: AttributeError).
extract_delta_text(data) ==
    [raises |-> data.kind = "badshape",
     text |-> IF data.kind = "delta" THEN data.text ELSE <<>>]

\* What the translators write: the chunks of a streamed response, or the one
\* completion of a buffered one.
Chunk(kind, text) == [kind |-> kind, text |-> text]
RoleChunk == Chunk("role", <<>>)
FinishChunk == Chunk("finish", <<>>)
DoneMarker == Chunk("[DONE]", <<>>)

\* The lines an upstream sends: the text deltas "H" and "E", the
\* end-of-stream marker, a payload that is no JSON, an event that is no text
\* delta, a text-delta event of a wrong shape, and an "event:" header line.
LineKinds == {"deltaH", "deltaE", "done", "badjson", "step", "badshape", "event"}

LineBytes(kind) ==
    CASE kind = "deltaH" -> <<"data:", SP, "{", "H", "}">>
      [] kind = "deltaE" -> <<"data:", SP, "{", "e1", "e2", "}">>
      [] kind = "done" -> <<"data:", SP, "[DONE]">>
      [] kind = "badjson" -> <<"data:", SP, "{", "H">>
      [] kind = "step" -> <<"data:", "step">>
      [] kind = "badshape" -> <<"data:", SP, "badshape">>
      [] kind = "event" -> <<"event:">>

\* A header line ends with "\n", every other line ends its event with "\n\n".
LineEnd(kind) == IF kind = "event" THEN <<NL>> ELSE <<NL, NL>>

\* The bytes of the upstream: its lines, the last one without its end of line
\* when the upstream is cut there.
RECURSIVE Wire(_, _)
Wire(lines, cut) ==
    IF lines = <<>> THEN <<>>
    ELSE IF Len(lines) = 1 /\ cut THEN LineBytes(Head(lines))
    ELSE LineBytes(Head(lines)) \o LineEnd(Head(lines)) \o Wire(Tail(lines), cut)

\* _stream_response, the for loop over the lines of one event block: the
\* chunks written, and whether the loop goes on ("reading"), returned at the
\* end-of-stream marker ("returned") or raised ("failed").
RECURSIVE StreamLines(_, _)
StreamLines(lines, written) ==
    IF lines = <<>> THEN [out |-> written, tpc |-> "reading"]
    ELSE LET line == strip(Head(lines))
             data_str == strip(Tail(line))
             data == loads(data_str)
             text == extract_delta_text(data)
         IN  IF ~IsDataLine(line) THEN StreamLines(Tail(lines), written)
             ELSE IF data_str = <<"[DONE]">>
             THEN [out |-> written \o <<FinishChunk, DoneMarker>>,
                   tpc |-> "returned"]
             ELSE IF ~data.ok THEN StreamLines(Tail(lines), written)
             ELSE IF text.raises THEN [out |-> written, tpc |-> "failed"]
             ELSE IF text.text # <<>>
             THEN StreamLines(Tail(lines),
                              Append(written, Chunk("content", text.text)))
             ELSE StreamLines(Tail(lines), written)

\* _stream_response, 'while "\n\n" in buffer': every complete event block of
\* the buffer is cut off and handled.
RECURSIVE StreamBuffer(_, _)
StreamBuffer(buf, written) ==
    LET i == FindBlank(buf, 1)
        block == SubSeq(buf, 1, i - 1)
        rest == SubSeq(buf, i + 2, Len(buf))
        r == StreamLines(SplitLines(strip(block), <<>>), written)
    IN  IF i = 0 THEN [buffer |-> buf, out |-> written, tpc |-> "reading"]
        ELSE IF r.tpc # "reading"
        THEN [buffer |-> rest, out |-> r.out, tpc |-> r.tpc]
        ELSE StreamBuffer(rest, r.out)

\* _stream_response from the head of its for loop, with the lines left of
\* the event block, to the next await or to its end: the loop goes on with
\* the next line and, when the block is done, 'while "\n\n" in buffer' with
\* the next block, until the translator awaits iter_any() ("reading"), awaits
\* the write of a content chunk ("write_content") or of the finish chunk at
\* the end-of-stream marker ("write_finish"), or raises ("failed").  In a
\* write the line written for is the first of the lines left.
RECURSIVE Advance(_, _)
Advance(buf, lines) ==
    IF lines = <<>>
    THEN LET i == FindBlank(buf, 1)
             block == SubSeq(buf, 1, i - 1)
             rest == SubSeq(buf, i + 2, Len(buf))
         IN  IF i = 0
             THEN [buffer |-> buf, event_block |-> <<>>, tpc |-> "reading"]
             ELSE Advance(rest, SplitLines(strip(block), <<>>))
    ELSE LET line == strip(Head(lines))
             data_str == strip(Tail(line))
             data == loads(data_str)
             text == extract_delta_text(data)
         IN  IF ~IsDataLine(line) THEN Advance(buf, Tail(lines))
             ELSE IF data_str = <<"[DONE]">>
             THEN [buffer |-> buf, event_block |-> lines,
                   tpc |-> "write_finish"]
             ELSE IF ~data.ok THEN Advance(buf, Tail(lines))
             ELSE IF text.raises
             THEN [buffer |-> buf, event_block |-> lines, tpc |-> "failed"]
             ELSE IF text.text # <<>>
             THEN [buffer |-> buf, event_block |-> lines,
                   tpc |-> "write_content"]
             ELSE Advance(buf, Tail(lines))

\* _collect_response, the for loop over the lines of the whole text:
\* full_content, and whether _extract_delta_text raised.
RECURSIVE CollectLines(_, _)
CollectLines(lines, full_content) ==
    IF lines = <<>> THEN [content |-> full_content, raises |-> FALSE]
    ELSE LET line == strip(Head(lines))
             data_str == strip(Tail(line))
             data == loads(data_str)
             text == extract_delta_text(data)
         IN  IF ~IsDataLine(line) THEN CollectLines(Tail(lines), full_content)
             ELSE IF data_str = <<"[DONE]">>
             THEN CollectLines(Tail(lines), full_content)
             ELSE IF ~data.ok THEN CollectLines(Tail(lines), full_content)
             ELSE IF text.raises
             THEN [content |-> full_content, raises |-> TRUE]
             ELSE CollectLines(Tail(lines), full_content \o text.text)

\* str(e) of the error of a write to a client that is gone.
WriteError == "Cannot write to closing transport"

\* str(e) of the AttributeError of _extract_delta_text.
ShapeError == "object has no attribute 'get'"

\* The request whose handler is in a translator.
Translating == CHOOSE p \in Requests : pc[p] = "translating"

\* The translator goes on: nothing but its own state changes.
TransGoesOn == UNCHANGED <<poolVars, reqVars, seqVars, tokVars, chatVars, atomVars>>

\* The request ends in the translator, or behind it in the handler's
\* 'except Exception': pool.release(acc, error), and the response is returned.
TransReturn(error, status) ==
    /\ accounts' = release(accounts, acc[Translating], error)
    /\ releases' = Append(releases, error)
    /\ resp' = status
    /\ EndRequest(Translating)
    /\ UNCHANGED <<index, forced, seqVars, now, refresh_locks, file, calls,
                   attempt, sleeps, before,
                   callVars, mapVars, atomVars>>

\* The translator is entered: _stream_response prepares the response and
\* writes the role chunk, _collect_response starts with empty texts.
TransStart ==
    /\ tpc = "start"
    /\ tpc' = "reading"
    /\ out' = IF mode = "stream" THEN <<RoleChunk>> ELSE <<>>
    /\ UNCHANGED <<mode, sent, pos, buffer, event_block>>
    /\ TransGoesOn

\* Mutant of RoleWriteFails: the exception of the write leaves the handler
\* too, and nothing releases the account.
RoleWriteLeaks ==
    /\ tpc = "start"
    /\ mode = "stream"
    /\ tpc' = "write_raised"
    /\ resp' = "500"
    /\ EndRequest(Translating)
    /\ UNCHANGED <<mode, sent, pos, buffer, event_block, out>>
    /\ UNCHANGED <<accounts, index, forced, seqVars, now, refresh_locks, file,
                   calls, attempt, sleeps, releases, before,
                   callVars, mapVars, atomVars>>

\* The client is gone when _stream_response prepares the response or writes
\* the role chunk: the write raises outside the try block, the exception
\* leaves the translator, and the handler's 'except Exception' releases the
\* account with str(e) and answers 502.
RoleWriteFails ==
    /\ tpc = "start"
    /\ mode = "stream"
    /\ tpc' = "write_raised"
    /\ UNCHANGED <<mode, sent, pos, buffer, event_block, out>>
    /\ TransReturn(WriteError, "502 Stream error")

\* _stream_response runs from the head of its for loop to the next await:
\* the translator is then suspended in iter_any() or in a write, with its
\* lease; or an event raised, the exception is logged, the account is
\* released and the response returned, with no await on the way.
StreamAdvance(buf, lines) ==
    LET r == Advance(buf, lines)
    IN  /\ buffer' = r.buffer
        /\ event_block' = r.event_block
        /\ tpc' = r.tpc
        /\ IF r.tpc = "failed" THEN TransReturn("", "stream") ELSE TransGoesOn

\* iter_any() yields the next n bytes of the upstream: they are decoded and
\* added to the buffer; _stream_response goes on to its next await,
\* _collect_response to the next iter_any().
ReadChunk(n) ==
    /\ tpc = "reading"
    /\ n \in 1..(Len(Wire(sent.lines, sent.cut)) - pos)
    /\ LET chunk == SubSeq(Wire(sent.lines, sent.cut), pos + 1, pos + n)
           buf == buffer \o decode(chunk)
       IN  IF mode = "stream"
           THEN StreamAdvance(buf, <<>>)
           ELSE /\ buffer' = buf
                /\ UNCHANGED <<event_block, tpc>>
                /\ TransGoesOn
    /\ pos' = pos + n
    /\ UNCHANGED <<mode, sent, out>>

\* 'await response.write(content chunk)' returns: the chunk is written, and
\* the for loop goes on with the next line.
WriteContent ==
    /\ tpc = "write_content"
    /\ LET data_str == strip(Tail(strip(Head(event_block))))
           text == extract_delta_text(loads(data_str)).text
       IN  out' = Append(out, Chunk("content", text))
    /\ StreamAdvance(buffer, Tail(event_block))
    /\ UNCHANGED <<mode, sent, pos>>

\* 'await response.write(finish chunk)' returns, at the end-of-stream marker
\* or after the close of the upstream: the write of the terminal marker
\* is next.
WriteFinish ==
    /\ tpc = "write_finish"
    /\ out' = Append(out, FinishChunk)
    /\ tpc' = "write_done"
    /\ UNCHANGED <<mode, sent, pos, buffer, event_block>>
    /\ TransGoesOn

\* Mutant of WriteDone: after the terminal marker the for loop goes on with
\* the next line.
WriteDoneGoesOn ==
    /\ tpc = "write_done"
    /\ out' = Append(out, DoneMarker)
    /\ IF event_block = <<>>
       THEN /\ tpc' = "returned"
            /\ UNCHANGED <<buffer, event_block>>
            /\ TransReturn("", "stream")
       ELSE StreamAdvance(buffer, Tail(event_block))
    /\ UNCHANGED <<mode, sent, pos>>

\* 'await response.write(b"data: [DONE]\n\n")' returns: the terminal marker
\* is written, the account is released and the response returned.
WriteDone ==
    /\ tpc = "write_done"
    /\ out' = Append(out, DoneMarker)
    /\ tpc' = "returned"
    /\ UNCHANGED <<mode, sent, pos, buffer, event_block>>
    /\ TransReturn("", "stream")

\* The client is gone: the write _stream_response awaits inside its try
\* block raises; the exception is logged, the account released and the
\* response returned as it is.
WriteFails ==
    /\ tpc \in {"write_content", "write_finish", "write_done"}
    /\ tpc' = "write_failed"
    /\ UNCHANGED <<mode, sent, pos, buffer, event_block, out>>
    /\ TransReturn("", "stream")

\* The upstream closes after its last byte: _stream_response leaves the
\* read loop and awaits the write of the finish chunk; _collect_response
\* reads the lines of the text, releases the account and returns the
\* completion, or raises, and the handler's 'except Exception' releases the
\* account with str(e) and answers 502.
ReadEnd ==
    /\ tpc = "reading"
    /\ pos = Len(Wire(sent.lines, sent.cut))
    /\ LET r == CollectLines(SplitLines(buffer, <<>>), <<>>)
       IN  IF mode = "stream"
           THEN /\ tpc' = "write_finish"
                /\ UNCHANGED out
                /\ TransGoesOn
           ELSE IF r.raises
           THEN /\ tpc' = "raised"
                /\ UNCHANGED out
                /\ TransReturn(ShapeError, "502 Stream error")
           ELSE /\ out' = <<Chunk("completion", r.content)>>
                /\ tpc' = "returned"
                /\ TransReturn("", "completion")
    /\ UNCHANGED <<mode, sent, pos, buffer, event_block>>

\* Reading the upstream raises (connection error, timeout; error is str(e)):
\* _stream_response logs the error, releases the account and returns the
\* response as it is ("read_failed"); _collect_response lets the exception
\* out ("read_raised"), and the handler's 'except Exception' releases the
\* account with str(e) and answers 502.
ReadError(error) ==
    /\ tpc = "reading"
    /\ tpc' = IF mode = "stream" THEN "read_failed" ELSE "read_raised"
    /\ UNCHANGED <<mode, sent, pos, buffer, event_block, out>>
    /\ IF mode = "stream" THEN TransReturn("", "stream")
       ELSE TransReturn(error, "502 Stream error")

RECURSIVE SeqsOf(_, _)
SeqsOf(S, n) ==
    IF n = 0 THEN {<<>>}
    ELSE LET shorter == SeqsOf(S, n - 1)
         IN  shorter \cup {Append(s, x) : s \in {t \in shorter : Len(t) = n - 1},
                                          x \in S}

\* The state in which the handler of the first request enters a translator:
\* the request holds the one account, whose token ensure_token has fetched.
TransInit ==
    /\ file = Store(1, {})
    /\ accounts = [load(file) EXCEPT ![0].in_use = TRUE,
                                     ![0].access_token = "tokA",
                                     ![0].token_expires = TOKEN_TTL]
    /\ index = 0
    /\ refresh_locks = EnsureLock([e \in {} |-> NewLock], accounts[0].email)
    /\ now = 0
    /\ pc = [p \in Requests |-> IF p = 1 THEN "translating" ELSE "idle"]
    /\ acc = [p \in Requests |-> IF p = 1 THEN 0 ELSE None]
    /\ forced = FALSE
    /\ token = [p \in Requests |-> IF p = 1 THEN "tokA" ELSE ""]
    /\ called = [p \in Requests |-> p = 1]
    /\ handed = [p \in Requests |-> ""]
    /\ calls = 1
    /\ exc = [p \in Requests |-> ""]
    /\ pre = [accounts |-> load(file), index |-> 0]
    /\ log = <<>>
    /\ mode \in {"stream", "buffered"}
    /\ sent \in [lines : SeqsOf(LineKinds, MaxLines), cut : BOOLEAN]
    /\ sent.lines = <<>> => ~sent.cut
    /\ pos = 0
    /\ buffer = <<>>
    /\ event_block = <<>>
    /\ out = <<>>
    /\ tpc = "start"
    /\ ChatIdle
    /\ PoolIdle

TransNext ==
    \/ TransStart
    \/ RoleWriteFails
    \/ \E n \in 1..(MaxLines * 8) : ReadChunk(n)
    \/ WriteContent
    \/ WriteFinish
    \/ WriteDone
    \/ WriteFails
    \/ ReadEnd
    \/ \E e \in Errors : ReadError(e)

SpecTrans == TransInit /\ [][TransNext]_vars

(***************************************************************************)
(* The request handler with its token step: lease, ensure_token on the     *)
(* leased account, then either the release with the token error or the     *)
(* phase-1 call; what follows the phase-1 call ends with a release of the   *)
(* account, or without one.                                                *)
(***************************************************************************)
\* A request arrives and acquires an account; a run handles as many requests
\* as it makes ensure_token calls.
HandleRequest(p) ==
    /\ calls + Cardinality({q \in Requests : pc[q] = "leased"}) < MaxTokCalls
    /\ HandleStart(p)

\* token = await pool.ensure_token(acc), on the account just leased.
HandleEnsure(p) ==
    /\ pc[p] = "leased"
    /\ EnsureCall(p, acc[p])

\* Mutant of HandleTokenError: the release does not pass the error.
HandleTokenErrorClean(p) ==
    /\ pc[p] = "raised"
    /\ accounts' = release(accounts, acc[p], "")
    /\ EndRequest(p)
    /\ UNCHANGED <<transVars, chatVars, atomVars,
                   index, forced, pre, log, now, refresh_locks, file, calls>>

\* except Exception as e: pool.release(acc, str(e)); return 502.
HandleTokenError(p) ==
    /\ pc[p] = "raised"
    /\ accounts' = release(accounts, acc[p], exc[p])
    /\ EndRequest(p)
    /\ UNCHANGED <<transVars, chatVars, atomVars,
                   index, forced, pre, log, now, refresh_locks, file, calls>>

\* ensure_token returned: the phase-1 POST is made with the token.
HandleInitiate(p) ==
    /\ pc[p] = "returned"
    /\ pc' = [pc EXCEPT ![p] = "phase1"]
    /\ UNCHANGED <<transVars, chatVars, atomVars,
                   accounts, index, acc, forced, pre, log, now, refresh_locks,
                   file, token, called, handed, calls, exc>>

\* The handler ends after its phase-1 call, at one of its release() calls.
HandleEnd(p, error) ==
    /\ pc[p] = "phase1"
    /\ accounts' = release(accounts, acc[p], error)
    /\ EndRequest(p)
    /\ UNCHANGED <<transVars, chatVars, atomVars,
                   index, forced, pre, log, now, refresh_locks, file, calls>>

\* The handler ends after its phase-1 call without a release() call:
\* init_data.get raises on a JSON body that is not an object.
HandleEndNoRelease(p) ==
    /\ pc[p] = "phase1"
    /\ EndRequest(p)
    /\ UNCHANGED <<transVars, chatVars, atomVars,
                   accounts, index, forced, pre, log, now, refresh_locks, file,
                   calls>>

HandlerNext ==
    \/ \E p \in Requests : HandleRequest(p)
    \/ \E p \in Requests : HandleEnsure(p)
    \/ \E p \in Requests : EnsureResume(p)
    \/ \E p \in Requests : \E tok \in Tokens : \E cookies \in Cookies :
          RefreshOk(p, tok, cookies)
    \/ \E p \in Requests : \E tok \in Tokens : \E cookies \in Cookies :
          RefreshSaveFails(p, tok, cookies)
    \/ \E p \in Requests : RefreshFail(p)
    \/ \E p \in Requests : \E e \in Errors : RefreshRaises(p, e)
    \/ \E p \in Requests : HandleTokenError(p)
    \/ \E p \in Requests : HandleInitiate(p)
    \/ \E p \in Requests : \E e \in Errors : HandleEnd(p, e)
    \/ \E p \in Requests : HandleEndNoRelease(p)
    \/ Tick

SpecHandler == Init /\ [][HandlerNext]_vars

(***************************************************************************)
(* The chat request from its arrival to its response, one request at a     *)
(* time: lease, ensure_token, the phase-1 POST with its retries, the       *)
(* phase-2 GET, and the translator with a client that may go away.         *)
(***************************************************************************)
MAX_RETRIES == 3

\* str(e) of the JSONDecodeError of resp.json().
JsonError == "Expecting value"

\* The "data:" lines of a phase-1 body that is no JSON: the invalid-model
\* marker, an error marker with a text and one with an empty text, an object
\* with neither, a payload that is no JSON, and a JSON value that is no
\* object.  The other lines of such a body are skipped like "other".
SseKinds == {"invalid_model", "error", "error_empty", "other", "notjson",
             "notdict"}
MaxSseLines == 2

\* The for loop over the lines of sse_text: the status of the response and
\* the error passed to release().  sse_data.get raises an AttributeError on a
\* value that is no object, which the handler's 'except Exception' catches.
RECURSIVE sse_result(_)
sse_result(lines) ==
    IF lines = <<>>
    THEN [status |-> "502 Unexpected response format",
          error |-> "Unexpected SSE"]
    ELSE CASE Head(lines) = "invalid_model" ->
                [status |-> "400", error |-> ""]
           [] Head(lines) = "error" ->
                [status |-> "502 Upstream error", error |-> "boom"]
           [] Head(lines) = "error_empty" ->
                [status |-> "502 Upstream error", error |-> ""]
           [] Head(lines) = "notdict" ->
                [status |-> "502 Chat init error", error |-> ShapeError]
           [] OTHER -> sse_result(Tail(lines))

\* What resp.json() makes of a phase-1 answer declared as JSON:
\*   "id"       an object whose conversationId is a non-empty string ("c1");
\*   "id_list"  an object whose conversationId is a non-empty list (["c1"]):
\*              true, and sliceable as a string is;
\*   "noid"     an object without conversationId, or with the empty string;
\*   "id_zero"  an object whose conversationId is another false value
\*              (0, false, [], {}, null);
\*   "badid"    an object whose conversationId is true and cannot be sliced
\*              (123, 1.5, true, {"a": 1});
\*   "notdict"  a JSON value that is no object ([1], "x", 1, null);
\*   "empty"    an empty body, for which resp.json() returns None;
\*   "notjson"  a body that is not empty and no JSON: resp.json() raises.
JsonKinds == {"id", "id_list", "noid", "id_zero", "badid", "notdict", "empty",
              "notjson"}

\* init_data has no method get.
NoObject == {"notdict", "empty"}

\* 'not conv_id'
FalsyId == {"noid", "id_zero"}

\* The conversation id of the kinds on which conv_id[:12] succeeds, "id" and
\* "id_list", as the URL of phase 2 carries it: f"{conv_id}".
IdText(kind) == IF kind = "id" THEN "c1" ELSE "['c1']"

\* The request bodies that end the handler before pool.acquire():
\*   "notjson"      request.json() raises (an empty body too);
\*   "notdict"      a JSON value that is no object: body.get raises;
\*   "badmodel"     a model that is no string: _model_map raises;
\*   "badmessages"  messages that cannot be walked: _messages_to_text raises;
\*   "nomessages"   no messages, or messages without text.
RejectKinds == {"notjson", "notdict", "badmodel", "badmessages", "nomessages"}

\* The upstreams of phase 2, each read in chunks of any size.
ChatStreams ==
    {[lines |-> l, cut |-> FALSE] :
        l \in {<<>>, <<"deltaH", "done">>, <<"deltaE">>, <<"badshape">>}}

\* A request arrives when no other is in flight and is answered before
\* pool.acquire(): 400 for a body that is no JSON and for one without text,
\* 500 for an exception of body.get, _model_map or _messages_to_text.  The
\* pool is not touched.
ChatReject(p, kind) ==
    /\ \A q \in Requests : pc[q] = "idle"
    /\ resp' = IF kind \in {"notjson", "nomessages"} THEN "400" ELSE "500"
    /\ before' = [acc |-> None, count |-> 0]
    /\ attempt' = 0
    /\ sleeps' = <<>>
    /\ releases' = <<>>
    /\ mode' = "stream"
    /\ sent' = [lines |-> <<>>, cut |-> FALSE]
    /\ pos' = 0
    /\ buffer' = <<>>
    /\ event_block' = <<>>
    /\ out' = <<>>
    /\ tpc' = "idle"
    /\ trail' = <<>>
    /\ conv_id' = ""
    /\ UNCHANGED <<poolVars, reqVars, seqVars, tokVars, mapVars, atomVars>>

\* A request arrives when no other is in flight: pool.acquire(); on an empty
\* pool the handler answers 503.
ChatRequest(p) ==
    /\ \A q \in Requests : pc[q] = "idle"
    /\ calls < MaxTokCalls
    /\ LET r == acquire(accounts, index)
       IN  /\ accounts' = r.accounts
           /\ index' = r.index
           /\ acc' = [acc EXCEPT ![p] = r.acc]
           /\ forced' = (forced \/ r.forced)
           /\ pc' = [pc EXCEPT ![p] = IF r.acc = None THEN "idle" ELSE "leased"]
           /\ resp' = IF r.acc = None THEN "503" ELSE ""
           /\ before' = [acc |-> r.acc,
                          count |-> IF r.acc = None THEN 0
                                    ELSE accounts[r.acc].error_count]
    /\ attempt' = 0
    /\ sleeps' = <<>>
    /\ releases' = <<>>
    /\ mode' = "stream"
    /\ sent' = [lines |-> <<>>, cut |-> FALSE]
    /\ pos' = 0
    /\ buffer' = <<>>
    /\ event_block' = <<>>
    /\ out' = <<>>
    /\ tpc' = "idle"
    /\ trail' = <<>>
    /\ conv_id' = ""
    /\ UNCHANGED <<seqVars, tokVars, mapVars, atomVars>>

\* pool.release(acc, error) and the return of a response.
ChatReturn(p, error, status) ==
    /\ accounts' = release(accounts, acc[p], error)
    /\ releases' = Append(releases, error)
    /\ resp' = status
    /\ EndRequest(p)
    /\ UNCHANGED <<transVars, index, forced, seqVars, now, refresh_locks, file,
                   calls, attempt, sleeps, before,
                   callVars, mapVars, atomVars>>

\* An exception leaves the handler: no release(), and the server answers 500.
ChatCrash(p) ==
    /\ resp' = "500"
    /\ EndRequest(p)
    /\ UNCHANGED <<transVars, accounts, index, forced, seqVars, now,
                   refresh_locks, file, calls, attempt, sleeps, releases,
                   before, callVars, mapVars, atomVars>>

\* ensure_token raised: pool.release(acc, str(e)), 502.
ChatTokenError(p) ==
    /\ pc[p] = "raised"
    /\ ChatReturn(p, exc[p], "502 Token error")

\* Mutant of ChatRateLimited: the handler gives up one attempt earlier.
ChatRateLimitedEarly(p) ==
    /\ pc[p] = "phase1"
    /\ IF attempt < MAX_RETRIES - 2
       THEN /\ sleeps' = Append(sleeps, 2 ^ attempt)
            /\ pc' = [pc EXCEPT ![p] = "backoff"]
            /\ UNCHANGED <<transVars, poolVars, acc, forced, seqVars, tokVars,
                           attempt, releases, resp, before,
                           callVars, mapVars, atomVars>>
       ELSE ChatReturn(p, "concurrent_limit", "429")

\* Phase 1 answers 429: the handler sleeps 2 ** attempt seconds before the
\* next attempt, or, on the last attempt, releases the account and answers 429.
ChatRateLimited(p) ==
    /\ pc[p] = "phase1"
    /\ IF attempt < MAX_RETRIES - 1
       THEN /\ sleeps' = Append(sleeps, 2 ^ attempt)
            /\ pc' = [pc EXCEPT ![p] = "backoff"]
            /\ UNCHANGED <<transVars, poolVars, acc, forced, seqVars, tokVars,
                           attempt, releases, resp, before,
                           callVars, mapVars, atomVars>>
       ELSE ChatReturn(p, "concurrent_limit", "429")

\* ensure_token returned: the first phase-1 POST is made with the token.
ChatInitiate(p) ==
    /\ pc[p] = "returned"
    /\ pc' = [pc EXCEPT ![p] = "phase1"]
    /\ trail' = Append(trail, "initiate")
    /\ UNCHANGED <<transVars, poolVars, acc, forced, seqVars, tokVars,
                   attempt, sleeps, releases, resp, before, conv_id, mapVars, atomVars>>

\* The sleep is over: the next attempt posts again.
ChatRetry(p) ==
    /\ pc[p] = "backoff"
    /\ attempt' = attempt + 1
    /\ pc' = [pc EXCEPT ![p] = "phase1"]
    /\ trail' = Append(trail, "initiate")
    /\ UNCHANGED <<transVars, poolVars, acc, forced, seqVars, tokVars,
                   sleeps, releases, resp, before, conv_id, mapVars, atomVars>>

\* Phase 1 answers another status than 200 and 429, with the body err.
ChatInitStatus(p, err) ==
    /\ pc[p] = "phase1"
    /\ ChatReturn(p, err, "502 Chat init failed")

\* Phase 1 answers 200 with a body that is no JSON.
ChatInitSse(p, lines) ==
    /\ pc[p] = "phase1"
    /\ ChatReturn(p, sse_result(lines).error, sse_result(lines).status)

\* Mutant of ChatInitJson: the GET is made without a conversation id too.
ChatInitJsonAnyId(p, kind) ==
    /\ pc[p] = "phase1"
    /\ CASE kind = "notjson" ->
              ChatReturn(p, JsonError, "502 Chat init error")
         [] kind \in NoObject -> ChatCrash(p)
         [] kind \in FalsyId \cup {"id", "id_list"} ->
              /\ pc' = [pc EXCEPT ![p] = "phase2"]
              /\ conv_id' = IF kind \in FalsyId THEN "" ELSE IdText(kind)
              /\ trail' = Append(trail, "stream")
              /\ UNCHANGED <<transVars, poolVars, acc, forced, seqVars,
                             tokVars, attempt, sleeps, releases, resp, before,
                             mapVars, atomVars>>
         [] OTHER -> ChatCrash(p)

\* Phase 1 answers 200 with a body declared as JSON.  resp.json() raising is
\* caught by 'except Exception': release(acc, str(e)), 502.  The statements
\* after the try block are in no try block: init_data.get raises on a value
\* that is no object (500, no release); a false conversation id releases the
\* account and answers 502; conv_id[:12] raises on an id that cannot be
\* sliced (500, no release); otherwise the phase-2 GET is made with the id
\* formatted into its URL.
ChatInitJson(p, kind) ==
    /\ pc[p] = "phase1"
    /\ CASE kind = "notjson" ->
              ChatReturn(p, JsonError, "502 Chat init error")
         [] kind \in NoObject -> ChatCrash(p)
         [] kind \in FalsyId ->
              ChatReturn(p, "No conversationId", "502 No conversationId")
         [] kind \in {"id", "id_list"} ->
              /\ pc' = [pc EXCEPT ![p] = "phase2"]
              /\ conv_id' = IdText(kind)
              /\ trail' = Append(trail, "stream")
              /\ UNCHANGED <<transVars, poolVars, acc, forced, seqVars,
                             tokVars, attempt, sleeps, releases, resp, before,
                             mapVars, atomVars>>
         [] OTHER -> ChatCrash(p)

\* The phase-1 POST, or the read of its answer, raises; error is str(e).
ChatInitRaises(p, error) ==
    /\ pc[p] = "phase1"
    /\ ChatReturn(p, error, "502 Chat init error")

\* Phase 2 answers another status than 200.
ChatStreamStatus(p) ==
    /\ pc[p] = "phase2"
    /\ ChatReturn(p, "Stream [500]", "502 Stream failed")

\* The phase-2 GET, or the read of its error body, raises; error is str(e).
ChatStreamRaises(p, error) ==
    /\ pc[p] = "phase2"
    /\ ChatReturn(p, error, "502 Stream error")

\* Phase 2 answers 200: the handler enters _stream_response or
\* _collect_response with the upstream s.
ChatStreamOk(p, m, s) ==
    /\ pc[p] = "phase2"
    /\ pc' = [pc EXCEPT ![p] = "translating"]
    /\ mode' = m
    /\ sent' = s
    /\ pos' = 0
    /\ buffer' = <<>>
    /\ event_block' = <<>>
    /\ out' = <<>>
    /\ tpc' = "start"
    /\ UNCHANGED <<chatVars, atomVars, poolVars, acc, forced, seqVars, tokVars>>

\* The chat requests are handled one at a time, so that which of the
\* requests arrives makes no difference: it is the first.
ChatNext ==
    \/ \E p \in {1} : \E k \in RejectKinds : ChatReject(p, k)
    \/ \E p \in {1} : ChatRequest(p)
    \/ \E p \in Requests : HandleEnsure(p)
    \/ \E p \in Requests : RefreshOk(p, "tokA", <<>>)
    \/ \E p \in Requests : RefreshFail(p)
    \/ \E p \in Requests : \E e \in Errors : RefreshRaises(p, e)
    \/ \E p \in Requests : ChatTokenError(p)
    \/ \E p \in Requests : ChatInitiate(p)
    \/ \E p \in Requests : ChatRateLimited(p)
    \/ \E p \in Requests : ChatRetry(p)
    \/ \E p \in Requests : \E e \in Errors : ChatInitStatus(p, e)
    \/ \E p \in Requests : \E l \in SeqsOf(SseKinds, MaxSseLines) :
          ChatInitSse(p, l)
    \/ \E p \in Requests : \E k \in JsonKinds : ChatInitJson(p, k)
    \/ \E p \in Requests : \E e \in Errors : ChatInitRaises(p, e)
    \/ \E p \in Requests : ChatStreamStatus(p)
    \/ \E p \in Requests : \E e \in Errors : ChatStreamRaises(p, e)
    \/ \E p \in Requests : \E m \in {"stream", "buffered"} :
          \E s \in ChatStreams : ChatStreamOk(p, m, s)
    \/ TransStart
    \/ RoleWriteFails
    \/ \E n \in 1..(MaxLines * 8) : ReadChunk(n)
    \/ WriteContent
    \/ WriteFinish
    \/ WriteDone
    \/ WriteFails
    \/ ReadEnd
    \/ \E e \in Errors : ReadError(e)

SpecChat == Init /\ [][ChatNext]_vars

(***************************************************************************)
(* _model_map: a model identifier is a sequence of characters.             *)
(***************************************************************************)
Slash == <<"/">>
ClaudePrefix == <<"c", "l", "a", "u", "d", "e", "-">>
GeminiPrefix == <<"g", "e", "m", "i", "n", "i", "-">>
AnthropicNs == <<"a", "n", "t", "h", "r", "o", "p", "i", "c", "/">>
GoogleNs == <<"g", "o", "o", "g", "l", "e", "/">>

\* "/" in model
HasSlash(s) == \E i \in 1..Len(s) : s[i] = "/"

\* model.startswith(prefix)
startswith(s, prefix) ==
    Len(s) >= Len(prefix) /\ SubSeq(s, 1, Len(prefix)) = prefix

\* Mutant of model_map: the prefixes are tested before the separator.
model_mapPrefixFirst(m) ==
    IF startswith(m, ClaudePrefix) THEN AnthropicNs \o m
    ELSE IF startswith(m, GeminiPrefix) THEN GoogleNs \o m
    ELSE m

model_map(m) ==
    IF HasSlash(m) THEN m
    ELSE IF startswith(m, ClaudePrefix) THEN AnthropicNs \o m
    ELSE IF startswith(m, GeminiPrefix) THEN GoogleNs \o m
    ELSE m

\* The identifiers of the requests: up to MaxParts pieces, each the start of
\* a family name with or without its dash, a namespace, a separator, or
\* another character.
MaxParts == 3
Parts == {ClaudePrefix, GeminiPrefix, SubSeq(ClaudePrefix, 1, 6),
          SubSeq(GeminiPrefix, 1, 6), SubSeq(AnthropicNs, 1, 9), Slash,
          <<"-">>, <<"4">>}

RECURSIVE Join(_)
Join(parts) == IF parts = <<>> THEN <<>> ELSE Head(parts) \o Join(Tail(parts))

Identifiers == {Join(ps) : ps \in SeqsOf(Parts, MaxParts)}

\* A request body with a model identifier arrives.
MapInit ==
    /\ InitPool(Store(0, {}))
    /\ InitRequests
    /\ TransIdle
    /\ PoolIdle
    /\ attempt = 0
    /\ sleeps = <<>>
    /\ releases = <<>>
    /\ resp = ""
    /\ before = [acc |-> None, count |-> 0]
    /\ trail = <<>>
    /\ conv_id = ""
    /\ pre = [accounts |-> accounts, index |-> index]
    /\ log = <<>>
    /\ model \in Identifiers
    /\ lc_model = <<>>

\* lc_model = _model_map(model)
MapModel ==
    /\ lc_model = <<>>
    /\ lc_model' = model_map(model)
    /\ UNCHANGED <<model, poolVars, reqVars, seqVars, tokVars, transVars,
                   attempt, sleeps, releases, resp, before, callVars, atomVars>>

MapNext == MapModel

SpecMap == MapInit /\ [][MapNext]_vars

(***************************************************************************)
(* acquire() and release() on the event loop.  One task runs at a time and *)
(* gives the loop back only where it awaits; acquire() is followed one     *)
(* statement at a time: 'async with self._lock', each iteration of the for *)
(* loop, and the assignment of the lease flag with the return.             *)
(***************************************************************************)
\* The request is inside 'async with self._lock'.
InSection(p) == pc[p] \in {"scan", "tested", "fallback"}

\* 'async with self._lock:' of a new request, or of one that waited for the
\* lock: a free lock is taken without suspending, a held one suspends the
\* task; then 'if not self._accounts: return None' and 'start = self._index'.
AcquireEnter(p) ==
    /\ running = None
    /\ pc[p] \in {"idle", "pool_wait"}
    /\ pc[p] = "pool_wait" =>
          ~pool_lock.locked /\ Head(pool_lock.waiters) = p
    /\ IF pc[p] = "idle" /\ ~LockFree(pool_lock)
       THEN /\ pool_lock' = [pool_lock EXCEPT !.waiters = Append(@, p)]
            /\ pc' = [pc EXCEPT ![p] = "pool_wait"]
            /\ UNCHANGED <<running, loop>>
       ELSE IF Size(accounts) = 0
       THEN /\ pool_lock' = [locked |-> FALSE,
                             waiters |-> SelectSeq(pool_lock.waiters,
                                                   LAMBDA q : q # p)]
            /\ pc' = [pc EXCEPT ![p] = "idle"]
            /\ UNCHANGED <<running, loop>>
       ELSE /\ pool_lock' = [locked |-> TRUE,
                             waiters |-> SelectSeq(pool_lock.waiters,
                                                   LAMBDA q : q # p)]
            /\ pc' = [pc EXCEPT ![p] = "scan"]
            /\ running' = p
            /\ loop' = [loop EXCEPT ![p] = [start |-> index,
                                            left |-> Size(accounts),
                                            acc |-> None]]
    /\ UNCHANGED <<accounts, index, acc, forced, seqVars, tokVars, transVars,
                   chatVars>>

\* Mutant of AcquireTest: the iteration awaits after its test, and the event
\* loop may run another task before the flag is set.
AcquireTestYields(p) ==
    /\ running = p
    /\ pc[p] = "scan"
    /\ index' = (index + 1) % Size(accounts)
    /\ loop' = [loop EXCEPT ![p].left = @ - 1, ![p].acc = index]
    /\ pc' = [pc EXCEPT ![p] = IF Eligible(accounts[index]) THEN "tested"
                               ELSE IF loop[p].left = 1 THEN "fallback"
                               ELSE "scan"]
    /\ running' = None
    /\ UNCHANGED <<accounts, acc, forced, pool_lock, seqVars, tokVars,
                   transVars, chatVars>>

\* One iteration of the for loop: acc = self._accounts[self._index], the
\* cursor moves on, and the test 'acc.error_count < 5 and not acc.in_use';
\* after the last iteration without an eligible account the loop ends.
AcquireTest(p) ==
    /\ running = p
    /\ pc[p] = "scan"
    /\ index' = (index + 1) % Size(accounts)
    /\ loop' = [loop EXCEPT ![p].left = @ - 1, ![p].acc = index]
    /\ pc' = [pc EXCEPT ![p] = IF Eligible(accounts[index]) THEN "tested"
                               ELSE IF loop[p].left = 1 THEN "fallback"
                               ELSE "scan"]
    /\ UNCHANGED <<accounts, acc, forced, running, pool_lock, seqVars, tokVars,
                   transVars, chatVars>>

\* 'acc.in_use = True; return acc' on the account that passed the test, or
\* after the loop on self._accounts[start]; the lock is released on the way
\* out, and the handler runs on to its first await.
AcquireMark(p) ==
    /\ running = p
    /\ pc[p] \in {"tested", "fallback"}
    /\ LET a == IF pc[p] = "tested" THEN loop[p].acc ELSE loop[p].start
       IN  /\ accounts' = Lease(accounts, a)
           /\ acc' = [acc EXCEPT ![p] = a]
    /\ forced' = (forced \/ pc[p] = "fallback")
    /\ pool_lock' = [pool_lock EXCEPT !.locked = FALSE]
    /\ pc' = [pc EXCEPT ![p] = "leased"]
    /\ running' = None
    /\ loop' = [loop EXCEPT ![p] = [start |-> 0, left |-> 0, acc |-> None]]
    /\ UNCHANGED <<index, seqVars, tokVars, transVars, chatVars>>

\* pool.release(acc, error) of a handler the event loop has resumed:
\* release() is a plain function, it runs to its end.
PoolRelease(p, error) ==
    /\ running = None
    /\ HandleFinish(p, error)

SectionNext ==
    \/ \E p \in Requests : AcquireEnter(p)
    \/ \E p \in Requests : AcquireTest(p)
    \/ \E p \in Requests : AcquireMark(p)
    \/ \E p \in Requests : \E e \in Errors : PoolRelease(p, e)

SpecSection == Init /\ [][SectionNext]_vars

(***************************************************************************)
(* Sequential acquire() calls, with no release in between, on a registry   *)
(* in any state the pool can be in: any cursor, any lease flags, error     *)
(* counters below, at and above the threshold.                             *)
(***************************************************************************)
SeqCounts == {0, UNHEALTHY - 1, UNHEALTHY, UNHEALTHY + 1}

PoolState(n, counts, leased) ==
    [i \in 0..(n - 1) |->
        [load(Store(n, {}))[i] EXCEPT
                           !.error_count = counts[i],
                           !.last_error = IF counts[i] > 0 THEN "boom" ELSE "",
                           !.in_use = (i \in leased)]]

SeqInit ==
    /\ \E n \in 0..MaxSeqAccounts :
         /\ \E counts \in [0..(n - 1) -> SeqCounts] :
              \E leased \in SUBSET (0..(n - 1)) :
                 accounts = PoolState(n, counts, leased)
         /\ index \in 0..(IF n = 0 THEN 0 ELSE n - 1)
         /\ file = Store(n, {})
    /\ refresh_locks = [e \in {} |-> NewLock]
    /\ now = 0
    /\ InitRequests
    /\ TransIdle
    /\ ChatIdle
    /\ PoolIdle
    /\ pre = [accounts |-> accounts, index |-> index]
    /\ log = <<>>

SeqAcquire ==
    /\ Len(log) < MaxSeqCalls
    /\ LET r == acquire(accounts, index)
       IN  /\ accounts' = r.accounts
           /\ index' = r.index
           /\ log' = Append(log, r.acc)
    /\ UNCHANGED <<pc, acc, forced, pre, tokVars, transVars, chatVars, atomVars>>

SeqNext == SeqAcquire

SpecSeq == SeqInit /\ [][SeqNext]_vars

(***************************************************************************)
(* The claims.                                                             *)
(***************************************************************************)
\* Eligibility as the specification words it: error counter below 5 and lease
\* flag clear.
IsEligible(accs, a) == accs[a].error_count < 5 /\ accs[a].in_use = FALSE
SomeEligible(accs) == \E a \in DOMAIN accs : IsEligible(accs, a)
\* The accounts other than a are the same in accs and in accs2.
SameBut(accs, accs2, a) ==
    /\ DOMAIN accs2 = DOMAIN accs
    /\ \A b \in DOMAIN accs : b # a => accs2[b] = accs[b]
\* What the acquire() call of this step returned.
Returned == log'[Len(log')]

\* C1: on a pool of N accounts, all healthy and unleased, the first N
\* sequential acquire() calls return N distinct accounts, each account of the
\* registry exactly once, whatever the cursor was at the start.
C1_SequentialAcquiresDistinct ==
    LET n == Size(accounts)
        k == IF Len(log) < n THEN Len(log) ELSE n
    IN  (\A a \in DOMAIN pre.accounts : IsEligible(pre.accounts, a)) =>
            /\ \A i \in 1..k : log[i] \in DOMAIN accounts
            /\ \A i, j \in 1..k : i # j => log[i] # log[j]
            /\ Len(log) >= n => {log[i] : i \in 1..n} = DOMAIN accounts

\* Three acquires on three healthy, unleased accounts, one of them with some
\* errors, starting at cursor 1, returned 1, 2, 0.
C1_Witness ==
    /\ Size(accounts) = 3
    /\ \A a \in DOMAIN pre.accounts : IsEligible(pre.accounts, a)
    /\ pre.accounts[2].error_count = 4
    /\ pre.index = 1
    /\ log = <<1, 2, 0>>

\* C2: when some account is eligible, acquire() returns the first eligible
\* account in cyclic order from the cursor, leases it, changes no other
\* account, and leaves the cursor right after the account returned.
C2_AcquireFirstEligible ==
    [][(SeqAcquire /\ SomeEligible(accounts)) =>
          LET a == Returned
              n == Size(accounts)
              d == (a - index + n) % n
          IN  /\ a \in DOMAIN accounts
              /\ IsEligible(accounts, a)
              /\ \A k \in 0..(d - 1) : ~IsEligible(accounts, (index + k) % n)
              /\ accounts'[a] = [accounts[a] EXCEPT !.in_use = TRUE]
              /\ SameBut(accounts, accounts', a)
              /\ index' = (a + 1) % n]_vars

\* With the cursor at 1 on three accounts, account 1 leased and account 2
\* unhealthy, the first call wrapped around and returned account 0, leaving
\* the cursor at 1.
C2_Witness ==
    /\ Size(accounts) = 3
    /\ pre.index = 1
    /\ pre.accounts[1].in_use /\ pre.accounts[1].error_count = 0
    /\ ~pre.accounts[2].in_use /\ pre.accounts[2].error_count = 5
    /\ IsEligible(pre.accounts, 0)
    /\ log = <<0>>
    /\ index = 1 /\ accounts[0].in_use

\* C3: acquire() returns None exactly when the pool is empty, and then it
\* changes nothing; on a non-empty pool it returns a leased account of the
\* registry, whatever the health and lease state of the accounts.
C3_NoneIffEmpty ==
    [][SeqAcquire =>
          /\ (Returned = None) <=> (Size(accounts) = 0)
          /\ Size(accounts) = 0 => (accounts' = accounts /\ index' = index)
          /\ Size(accounts) > 0 =>
                (Returned \in DOMAIN accounts /\ accounts'[Returned].in_use)]_vars

\* An acquire() on an empty pool returned None.
C3_Witness ==
    /\ Size(accounts) = 0
    /\ log = <<None>>

\* C4: when no account is eligible, acquire() returns the account at the
\* position the cursor had at the call and sets its lease flag, whatever its
\* health and lease state; no other account changes.
C4_ForcedFallbackAtStart ==
    [][(SeqAcquire /\ Size(accounts) > 0 /\ ~SomeEligible(accounts)) =>
          /\ Returned = index
          /\ accounts'[index] = [accounts[index] EXCEPT !.in_use = TRUE]
          /\ SameBut(accounts, accounts', index)]_vars

\* With the cursor at 2 on three accounts, none eligible (one leased and
\* healthy, two unhealthy), account 2, unhealthy and unleased, was returned
\* and is now leased.
C4_Witness ==
    /\ Size(accounts) = 3
    /\ pre.index = 2
    /\ pre.accounts[0].in_use /\ pre.accounts[0].error_count = 0
    /\ pre.accounts[1].error_count = 5
    /\ ~pre.accounts[2].in_use /\ pre.accounts[2].error_count = 6
    /\ log = <<2>>
    /\ accounts[2].in_use

\* C5: release clears the lease flag; with a non-empty error it raises the
\* error counter by one and records the message, without one it resets the
\* counter to zero and the account is eligible again; an account whose counter
\* has reached 5 is not returned by normal selection.
C5_ReleaseAccounting ==
    [][\A p \in Requests :
         /\ \A e \in Errors :
              HandleFinish(p, e) =>
                 LET a == acc[p]
                 IN  /\ accounts'[a].in_use = FALSE
                     /\ e # "" =>
                          /\ accounts'[a].error_count = accounts[a].error_count + 1
                          /\ accounts'[a].last_error = e
                     /\ e = "" =>
                          /\ accounts'[a].error_count = 0
                          /\ accounts'[a].last_error = accounts[a].last_error
                          /\ IsEligible(accounts', a)
                     /\ SameBut(accounts, accounts', a)
         /\ (HandleStart(p) /\ SomeEligible(accounts)) =>
                 accounts[acc'[p]].error_count < 5]_vars

\* After five error releases in a row account 0 stands at the threshold,
\* unleased, and the cursor stands on it; the request in flight holds the
\* other account.
C5_Witness ==
    /\ Size(accounts) = 2
    /\ accounts[0].error_count = 5 /\ ~accounts[0].in_use
    /\ accounts[0].last_error = "boom"
    /\ index = 0
    /\ \E p \in Requests : pc[p] = "leased" /\ acc[p] = 1

\* C6 as claimed: every error counter stays within 0..5.
C6_CounterWithinThreshold ==
    \A a \in DOMAIN accounts :
        accounts[a].error_count >= 0 /\ accounts[a].error_count <= 5

\* C6 as amended: the error counter is never negative and does not saturate:
\* a release with an error raises it by one also when it already stands at or
\* above the threshold 5, so that it exceeds 5.
C6_CounterNotSaturating ==
    /\ [](\A a \in DOMAIN accounts : accounts[a].error_count >= 0)
    /\ [][\A p \in Requests : \A e \in Errors :
            (HandleFinish(p, e) /\ e # "" /\ accounts[acc[p]].error_count >= 5) =>
               /\ accounts'[acc[p]].error_count = accounts[acc[p]].error_count + 1
               /\ accounts'[acc[p]].error_count > 5]_vars

\* An unhealthy account, leased by forced fallback, was released with an
\* error: its counter stands at 6.
C6_Witness ==
    /\ forced
    /\ \E a \in DOMAIN accounts :
          accounts[a].error_count = 6 /\ ~accounts[a].in_use

\* C7 as claimed: the lease flag of an account is never clear while a request
\* that acquired it has not released it, and no account is held by two
\* requests in flight.
C7_LeaseFlagExact ==
    \A a \in DOMAIN accounts :
        /\ Holders(a) # {} => accounts[a].in_use
        /\ Cardinality(Holders(a)) <= 1

\* C7 as amended: as long as no acquire() has taken the forced branch, no
\* account is held by two requests in flight and the flag of an account a
\* request holds is set.  (The flag may stay set with no holder: a handler that
\* ends without release leaves it set.)
C7_LeaseFlagWhileHeld ==
    ~forced =>
        \A a \in DOMAIN accounts :
            /\ Cardinality(Holders(a)) <= 1
            /\ Cardinality(Holders(a)) = 1 => accounts[a].in_use

\* No forced branch so far; one request holds account 0, whose flag is set,
\* and the other account's flag is set with no holder left.
C7_Witness ==
    /\ ~forced
    /\ Size(accounts) = 2
    /\ Cardinality(Holders(0)) = 1 /\ accounts[0].in_use
    /\ Holders(1) = {} /\ accounts[1].in_use

\* C8: in an execution without forced fallback, acquire() never returns an
\* account that a request in flight still holds.
C8_NoSharedLeaseWithoutFallback ==
    [][\A p \in Requests :
         (HandleStart(p) /\ ~forced' /\ acc'[p] # None) =>
            /\ Holders(acc'[p]) = {}
            /\ {q \in Requests : pc'[q] = "leased" /\ acc'[q] = acc'[p]} = {p}]_vars

\* Two requests in flight hold the two accounts, one each, and no acquire()
\* has been forced.
C8_Witness ==
    /\ ~forced
    /\ \E p, q \in Requests :
          /\ p # q
          /\ pc[p] = "leased" /\ pc[q] = "leased"
          /\ acc[p] = 0 /\ acc[q] = 1

\* The requests whose refresh of account a is in flight upstream.
Refreshing(a) == {p \in Requests : pc[p] = "refresh" /\ acc[p] = a}

\* C9: for every account, at most one upstream refresh call is in flight at
\* any time, however many requests call ensure_token on it concurrently.
C9_OneRefreshInFlight ==
    \A a \in DOMAIN accounts : Cardinality(Refreshing(a)) <= 1

\* A refresh of an account is in flight while another caller of ensure_token
\* on the same account waits for the section.
C9_Witness ==
    \E p, q \in Requests :
        /\ p # q
        /\ pc[p] = "refresh"
        /\ pc[q] = "lock_wait"
        /\ acc[q] = acc[p]

\* C10: of two concurrent ensure_token calls on one account without a valid
\* cached token, whose refresh succeeds, only the first calls upstream: the
\* one that waited for the section and was handed it by a caller returning a
\* token checks again with the section held, and returns that very token
\* without a call of its own.
C10_WaiterReturnsFirstToken ==
    \A q \in Requests :
        /\ (pc[q] = "woken" /\ handed[q] # "") =>
              /\ TokenValid(accounts[acc[q]], now)
              /\ accounts[acc[q]].access_token = handed[q]
        /\ (pc[q] \in {"refresh", "returned", "raised"} /\ handed[q] # "") =>
              /\ pc[q] = "returned"
              /\ ~called[q]
              /\ token[q] = handed[q]

\* Both callers have returned the same token; the first one called upstream,
\* the one that waited did not.
C10_Witness ==
    \E p, q \in Requests :
        /\ p # q
        /\ acc[p] = acc[q]
        /\ pc[p] = "returned" /\ called[p]
        /\ pc[q] = "returned" /\ ~called[q]
        /\ handed[q] # ""
        /\ token[q] = token[p]

\* The account at position a of accs has an access token and t is before its
\* stored expiry.
HasFreshToken(accs, a, t) ==
    accs[a].access_token # "" /\ t < accs[a].token_expires

\* The step is one in which request p makes the check that decides its call:
\* the call itself when it does not wait, its resumption when it waited.
Decides(p) ==
    \/ \E a \in DOMAIN accounts : EnsureStart(p, a) /\ pc'[p] # "lock_wait"
    \/ EnsureResume(p)

\* C11: ensure_token posts a refresh if and only if, when it checks, the
\* account has no access token or the time is at or past the stored expiry; a
\* token before its expiry is returned as it is, with no call and no change of
\* the account; a call waits for the section only without such a token; and a
\* successful refresh stores the time plus 840 seconds as expiry.
C11_RefreshIffExpired ==
    [][\A p \in Requests :
         /\ Decides(p) =>
              /\ (pc'[p] = "refresh") <=> ~HasFreshToken(accounts, acc'[p], now)
              /\ called'[p] <=> ~HasFreshToken(accounts, acc'[p], now)
              /\ HasFreshToken(accounts, acc'[p], now) =>
                    /\ pc'[p] = "returned"
                    /\ token'[p] = accounts[acc'[p]].access_token
                    /\ accounts' = accounts
         /\ (\E a \in DOMAIN accounts : EnsureStart(p, a) /\ pc'[p] = "lock_wait")
               => ~HasFreshToken(accounts, acc'[p], now)
         /\ (\E tok \in Tokens : \E cookies \in Cookies : RefreshOk(p, tok, cookies))
               => accounts'[acc[p]].token_expires = now + 840]_vars

\* A refresh is in flight for an account whose cached token is not empty and
\* whose expiry is exactly the current time; the token was stored by a refresh
\* 840 seconds ago.
C11_Witness ==
    \E p \in Requests :
        /\ pc[p] = "refresh"
        /\ accounts[acc[p]].access_token # ""
        /\ accounts[acc[p]].token_expires = now
        /\ now = 840

\* C12: when a successful refresh carries a replacement credential that
\* differs from the one the account presented, then as ensure_token returns
\* the account holds the replacement, and so does its record of the store;
\* the records of the other accounts are those of the registry too.
C12_RotationStoredAndSaved ==
    [][\A p \in Requests : \A tok \in Tokens : \A cookies \in Cookies :
         (/\ RefreshOk(p, tok, cookies)
          /\ cookies # <<>>
          /\ cookies[Len(cookies)] # accounts[acc[p]].refresh_token) =>
            LET a == acc[p]
                new_rt == cookies[Len(cookies)]
            IN  /\ pc'[p] = "returned"
                /\ accounts'[a].refresh_token = new_rt
                /\ Len(file') = Cardinality(DOMAIN accounts)
                /\ file'[a + 1] = [email |-> accounts[a].email,
                                   refresh_token |-> new_rt]
                /\ \A b \in DOMAIN accounts :
                      file'[b + 1].refresh_token = accounts'[b].refresh_token]_vars

\* A call has returned after a refresh that replaced the credential "r0" of
\* account 1 by "r1": the account and its record of the store hold "r1", and
\* account 0 and its record still hold "r0".
C12_Witness ==
    /\ Cardinality(DOMAIN accounts) = 2
    /\ \E p \in Requests : pc[p] = "returned" /\ called[p] /\ acc[p] = 1
    /\ accounts[1].refresh_token = "r1"
    /\ file[2].refresh_token = "r1"
    /\ accounts[0].refresh_token = "r0"
    /\ file[1].refresh_token = "r0"

\* The access token, its expiry and the rotating credential of an account.
TokenFields(a) == <<a.access_token, a.token_expires, a.refresh_token>>

\* C13: when the refresh endpoint answers with a status other than 200 or
\* with a body without token, ensure_token raises an error with a message and
\* leaves the registry as it was; the handler's next step is the release of
\* the account with that message (lease cleared, error counter one higher,
\* message recorded, token fields untouched) and the end of the request; a
\* phase-1 call is made only by a request whose ensure_token returned.
C13_TokenFailureReleases ==
    [][\A p \in Requests :
         /\ RefreshFail(p) =>
              /\ pc'[p] = "raised"
              /\ exc'[p] # ""
              /\ accounts' = accounts
         /\ (pc[p] = "raised" /\ pc'[p] # "raised") =>
              LET a == acc[p]
              IN  /\ pc'[p] = "idle"
                  /\ accounts'[a].in_use = FALSE
                  /\ exc[p] # "" =>
                       /\ accounts'[a].error_count = accounts[a].error_count + 1
                       /\ accounts'[a].last_error = exc[p]
                  /\ TokenFields(accounts'[a]) = TokenFields(accounts[a])
                  /\ SameBut(accounts, accounts', a)
         /\ (pc'[p] = "phase1" /\ pc[p] # "phase1") => pc[p] = "returned"]_vars

\* The only request of the run has ended after a failed refresh: its account
\* is unleased, has one error with the message of the failure, and still has
\* no token and its first credential.
C13_Witness ==
    /\ calls = 1
    /\ \A p \in Requests : pc[p] = "idle"
    /\ Cardinality(DOMAIN accounts) = 2
    /\ accounts[0].in_use = FALSE
    /\ accounts[0].error_count = 1
    /\ accounts[0].last_error = "refresh failed"
    /\ TokenFields(accounts[0]) = <<"", 0, "r0">>
    /\ index = 1

\* The key of the section that ensure_token uses for the account at position
\* a: self._refresh_locks[acc.email].
SectionOf(a) == accounts[a].email

\* Request q waits for the section that request p holds for its refresh.
BlockedBy(q, p) ==
    /\ pc[q] = "lock_wait"
    /\ pc[p] = "refresh"
    /\ SectionOf(acc[q]) = SectionOf(acc[p])

\* C14 as claimed: a refresh in flight for one account never blocks
\* ensure_token on an account at another position of the registry: a call that
\* waits behind a refresh is a call on the account being refreshed.
C14_DistinctAccountsIndependent ==
    \A p, q \in Requests : BlockedBy(q, p) => acc[q] = acc[p]

\* The line is a text-delta event, and the characters of its text.
IsDelta(kind) == kind \in {"deltaH", "deltaE"}
TextOf(kind) == IF kind = "deltaH" THEN <<"H">> ELSE <<"E">>

\* The lines are text-delta events followed by the end-of-stream marker.
DeltasThenDone(lines) ==
    /\ lines # <<>>
    /\ lines[Len(lines)] = "done"
    /\ \A i \in 1..(Len(lines) - 1) : IsDelta(lines[i])

\* One content chunk for each of the first n lines, with the text of the line.
ContentChunks(lines, n) == [i \in 1..n |-> Chunk("content", TextOf(lines[i]))]

\* C15 as claimed: in streaming mode, for an upstream of text-delta events
\* followed by the end-of-stream marker, what is written is the role chunk,
\* one content chunk per delta with exactly the text of that delta, in order,
\* the finish chunk and the terminal marker, and nothing else.
C15_StreamingOrder ==
    (mode = "stream" /\ tpc = "returned" /\ DeltasThenDone(sent.lines)) =>
        out = <<RoleChunk>>
                \o ContentChunks(sent.lines, Len(sent.lines) - 1)
                \o <<FinishChunk, DoneMarker>>

\* The last two chunks written are the finish chunk and the terminal marker,
\* and no other finish chunk or terminal marker was written.
EndsWithCompletion(written) ==
    /\ Len(written) >= 2
    /\ written[Len(written) - 1] = FinishChunk
    /\ written[Len(written)] = DoneMarker
    /\ \A i \in 1..(Len(written) - 2) :
          written[i] # FinishChunk /\ written[i] # DoneMarker

\* C16 as claimed: in streaming mode, when the upstream has ended without an
\* end-of-stream marker (no transport error while reading, no failed write
\* to the client), the translator has written the finish chunk and then the
\* terminal marker as its last two chunks when it returns.
C16_CloseWithoutMarker ==
    (/\ mode = "stream"
     /\ tpc \in {"returned", "failed"}
     /\ \A i \in 1..Len(sent.lines) : sent.lines[i] # "done") =>
        EndsWithCompletion(out)

\* C17 as claimed: in streaming mode, when reading the upstream fails after
\* the role chunk was written, the client still receives the finish chunk
\* followed by the terminal marker.
C17_ReadFailureCompletes ==
    (mode = "stream" /\ tpc = "read_failed") => EndsWithCompletion(out)

\* The texts of the text-delta events among the lines, in arrival order.
RECURSIVE DeltaTexts(_)
DeltaTexts(lines) ==
    IF lines = <<>> THEN <<>>
    ELSE (IF IsDelta(Head(lines)) THEN TextOf(Head(lines)) ELSE <<>>)
            \o DeltaTexts(Tail(lines))

\* C18 as claimed: in buffered mode, when the translator returns, the
\* upstream was read to its end and what is returned is one completion whose
\* content is the concatenation, in arrival order, of the texts of all
\* text-delta events of the upstream; the other lines contribute nothing.
C18_BufferedConcatenation ==
    (mode = "buffered" /\ tpc = "returned") =>
        /\ pos = Len(Wire(sent.lines, sent.cut))
        /\ out = <<Chunk("completion", DeltaTexts(sent.lines))>>

\* What _stream_response has written after the role chunk when the bytes
\* arrive as one chunk: the events ended by a blank line are handled, the
\* rest is held back.
OneChunk(bytes) == StreamBuffer(decode(bytes), <<RoleChunk>>)

\* C19 as claimed: in streaming mode, however the bytes read so far were cut
\* into chunks, what has been written is what the same bytes yield as one
\* chunk: every event ended by its blank line was handled once, an event
\* not yet ended is held back; after the close of the upstream the finish
\* chunk and the terminal marker follow.
C19_ChunkingIndependent ==
    LET r == OneChunk(SubSeq(Wire(sent.lines, sent.cut), 1, pos))
    IN  /\ (mode = "stream" /\ tpc \in {"reading", "failed"}) =>
                out = r.out /\ tpc = r.tpc
        /\ (mode = "stream" /\ tpc = "returned") =>
                out = IF r.tpc = "reading"
                      THEN r.out \o <<FinishChunk, DoneMarker>>
                      ELSE r.out

\* The lines _stream_response handles before it returns: the lines whose
\* event was ended by a blank line, up to the first end-of-stream marker.
RECURSIVE UpToDone(_)
UpToDone(lines) ==
    IF lines = <<>> \/ Head(lines) = "done" THEN <<>>
    ELSE <<Head(lines)>> \o UpToDone(Tail(lines))

\* The lines whose event block a blank line ends: a header line ends with one
\* "\n", so the header lines at the end of the upstream stay in the buffer.
RECURSIVE Closed(_)
Closed(lines) ==
    IF lines # <<>> /\ lines[Len(lines)] = "event"
    THEN Closed(SubSeq(lines, 1, Len(lines) - 1))
    ELSE lines

Forwarded(s) ==
    UpToDone(Closed(IF s.cut THEN SubSeq(s.lines, 1, Len(s.lines) - 1)
                    ELSE s.lines))

\* The lines that are text-delta events.
RECURSIVE Deltas(_)
Deltas(lines) ==
    IF lines = <<>> THEN <<>>
    ELSE (IF IsDelta(Head(lines)) THEN <<Head(lines)>> ELSE <<>>)
            \o Deltas(Tail(lines))

\* C20: a payload line that is no valid JSON writes nothing and ends
\* nothing.  A translator never fails on an upstream without an event of a
\* wrong shape; a translator that stands at a line with such a payload does
\* not await a write for it; in streaming mode, for an upstream with a
\* malformed payload, what was written at the return is the role chunk, one
\* content chunk with a text for every text delta handled, before and after
\* the malformed payload, the finish chunk and the terminal marker; in
\* buffered mode the one completion has a text that every text delta has
\* added to; and the texts are exactly those of the deltas.  (The text of a
\* two-byte character is the subject of C15, C18 and C19: the texts are
\* compared on the upstreams of one-byte characters.)
C20_MalformedJsonSkipped ==
    LET HasBadJson == \E i \in 1..Len(sent.lines) : sent.lines[i] = "badjson"
        OneByteDeltas ==
            \A i \in 1..Len(sent.lines) : sent.lines[i] # "deltaE"
    IN
    /\ tpc \in {"failed", "raised"} =>
            \E i \in 1..Len(sent.lines) : sent.lines[i] = "badshape"
    /\ tpc \in {"write_content", "failed"} =>
            loads(strip(Tail(strip(Head(event_block))))).ok
    /\ (mode = "stream" /\ tpc = "returned" /\ HasBadJson) =>
            LET ds == Deltas(Forwarded(sent))
            IN  /\ Len(out) = Len(ds) + 3
                /\ out[1] = RoleChunk
                /\ \A i \in 1..Len(ds) :
                      /\ out[i + 1].kind = "content"
                      /\ out[i + 1].text # <<>>
                /\ OneByteDeltas =>
                      \A i \in 1..Len(ds) : out[i + 1].text = TextOf(ds[i])
                /\ out[Len(out) - 1] = FinishChunk
                /\ out[Len(out)] = DoneMarker
    /\ (mode = "buffered" /\ tpc = "returned" /\ HasBadJson) =>
            /\ pos = Len(Wire(sent.lines, sent.cut))
            /\ Len(out) = 1
            /\ out[1].kind = "completion"
            /\ Len(out[1].text) >= Len(DeltaTexts(sent.lines))
            /\ OneByteDeltas =>
                  out[1].text = DeltaTexts(sent.lines)

\* In streaming mode the upstream sent a text delta, a malformed payload and
\* a second text delta, and closed: both deltas were forwarded, then the
\* finish chunk and the terminal marker.
C20_Witness ==
    /\ mode = "stream"
    /\ tpc = "returned"
    /\ sent.lines = <<"deltaH", "badjson", "deltaH">>
    /\ out = <<RoleChunk, Chunk("content", <<"H">>), Chunk("content", <<"H">>),
               FinishChunk, DoneMarker>>

\* The ways _stream_response ends: at the end-of-stream marker or the close
\* of the upstream, at an exception while an event is handled, at a read
\* error, at a failed write inside the try block, at a failed write of the
\* role chunk.
StreamEnds == {"returned", "failed", "read_failed", "write_failed",
               "write_raised"}

\* C21: a request in the streaming translator, wherever it is suspended
\* (before its first write, in iter_any(), in a write inside the try block),
\* holds its lease and no release was called for it; when the translator has
\* ended, in any of its ways, release was called exactly once for the
\* request, its lease flag is cleared and the request is over; and no step
\* calls release for a request whose translator has ended.
C21_StreamingReleasesOnce ==
    /\ [](/\ (/\ mode = "stream"
              /\ tpc \in {"start", "reading", "write_content", "write_finish",
                          "write_done"}) =>
                /\ releases = <<>>
                /\ pc[Translating] = "translating"
                /\ acc[Translating] = before.acc
                /\ accounts[before.acc].in_use
          /\ (mode = "stream" /\ tpc \in StreamEnds) =>
                /\ Len(releases) = 1
                /\ ~accounts[before.acc].in_use
                /\ \A p \in Requests : pc[p] = "idle")
    /\ [][(/\ mode = "stream"
           /\ tpc \notin StreamEnds \cup {"idle"}
           /\ tpc' \in StreamEnds) =>
              /\ Len(releases') = 1
              /\ accounts' = release(accounts, before.acc, releases'[1])]_vars

\* The finish chunk was written and the write of the terminal marker
\* failed: the one release is the translator's.
C21_Witness ==
    /\ mode = "stream"
    /\ tpc = "write_failed"
    /\ out = <<RoleChunk, Chunk("content", <<"H">>), FinishChunk>>
    /\ releases = <<"">>

\* The request handled last is over, with a response, and it had a lease:
\* it was not answered before pool.acquire(), and acquire() gave an account.
RequestOver ==
    /\ \A p \in Requests : pc[p] = "idle"
    /\ resp \notin {"", "503"}
    /\ before.acc # None

\* C22 as claimed: a request that acquired a lease and ended outside the
\* streaming translator (token failure, phase 1, phase 2, the buffered
\* translator) has had release called for it exactly once when its handler
\* is left.
C22_HandlerReleasesOnce ==
    (RequestOver /\ ~(mode = "stream" /\ tpc \in StreamEnds)) =>
        Len(releases) = 1

\* C23 as claimed: a request that ended with the InvalidModel client error
\* (400) had its account released once, and the error counter of the account
\* is what it was before the request.
C23_InvalidModelKeepsCounter ==
    (RequestOver /\ resp = "400") =>
        /\ Len(releases) = 1
        /\ accounts[before.acc].error_count = before.count

\* The delays of the first n backoffs: 1s, 2s, ...
Backoffs(n) == [i \in 1..n |-> 2 ^ (i - 1)]

\* C24: while a request is in its phase-1 loop it has made attempt + 1
\* initiate calls, at most three, has slept 1s, 2s, ... after each call that
\* was followed by another, holds the lease it acquired, and release was not
\* called; when it ends with the rate-limited response (429) it has made
\* three calls and slept 1s and 2s, and release was called once, with an
\* error, so that the counter is one higher.
C24_RateLimitRetries ==
    /\ \A p \in Requests :
          pc[p] \in {"phase1", "backoff"} =>
              /\ attempt + 1 <= MAX_RETRIES
              /\ sleeps = Backoffs(IF pc[p] = "backoff" THEN attempt + 1
                                   ELSE attempt)
              /\ pc[p] = "backoff" => attempt + 1 < MAX_RETRIES
              /\ releases = <<>>
              /\ acc[p] = before.acc
              /\ accounts[acc[p]].in_use
    /\ (RequestOver /\ resp = "429") =>
          /\ attempt + 1 = MAX_RETRIES
          /\ sleeps = <<1, 2>>
          /\ releases = <<"concurrent_limit">>
          /\ ~accounts[before.acc].in_use
          /\ accounts[before.acc].error_count = before.count + 1

\* Three 429 answers in a row: two sleeps, then the rate-limited response.
C24_Witness ==
    /\ RequestOver
    /\ resp = "429"
    /\ attempt = 2
    /\ sleeps = <<1, 2>>
    /\ releases = <<"concurrent_limit">>

\* C25: the normalised identifier is the identifier itself when it contains
\* the separator "/"; a bare identifier that starts with "claude-" gets the
\* prefix "anthropic/", one that starts with "gemini-" the prefix "google/",
\* and every other bare identifier is returned unchanged.
C25_ModelNormalization ==
    lc_model # <<>> =>
        /\ HasSlash(model) => lc_model = model
        /\ (~HasSlash(model) /\ startswith(model, ClaudePrefix)) =>
                lc_model = AnthropicNs \o model
        /\ (~HasSlash(model) /\ startswith(model, GeminiPrefix)) =>
                lc_model = GoogleNs \o model
        /\ (/\ ~HasSlash(model)
            /\ ~startswith(model, ClaudePrefix)
            /\ ~startswith(model, GeminiPrefix)) => lc_model = model

\* "claude-4" was normalised to "anthropic/claude-4".
C25_Witness ==
    /\ model = ClaudePrefix \o <<"4">>
    /\ lc_model = AnthropicNs \o ClaudePrefix \o <<"4">>

\* The responses of a failed phase 1 or phase 2, the InvalidModel error apart.
UpstreamFailures ==
    {"429", "502 Chat init failed", "502 Chat init error",
     "502 Upstream error", "502 Unexpected response format",
     "502 No conversationId", "502 Stream failed", "502 Stream error"}

\* C26 as claimed: a request that ended with the response of a phase-1 or
\* phase-2 failure other than InvalidModel leaves the error counter of its
\* account exactly one higher than it was before the request.
C26_FailuresPenalize ==
    (RequestOver /\ resp \in UpstreamFailures) =>
        accounts[before.acc].error_count = before.count + 1

\* C27: a request in flight holds the lease it acquired; it has called no
\* chat upstream before ensure_token returned, and none at all when
\* ensure_token raised; a request that has called phase 1 has the token
\* ensure_token returned; the phase-2 call is the last call, follows a
\* phase-1 call, and is made with a non-empty conversation id; a structured
\* success without an id ends with the error response, one release and no
\* phase-2 call.
C27_StepOrder ==
    /\ \A p \in Requests :
          pc[p] # "idle" =>
              /\ acc[p] # None
              /\ acc[p] = before.acc
              /\ accounts[acc[p]].in_use
    /\ \A p \in Requests :
          pc[p] \in {"leased", "lock_wait", "woken", "refresh", "returned",
                     "raised"} => trail = <<>>
    /\ (RequestOver /\ resp = "502 Token error") => trail = <<>>
    /\ \A p \in Requests : (pc[p] # "idle" /\ trail # <<>>) => token[p] # ""
    /\ trail # <<>> => trail[1] = "initiate"
    /\ \A i \in 1..Len(trail) :
          trail[i] = "stream" =>
              i = Len(trail) /\ trail[i - 1] = "initiate" /\ conv_id # ""
    /\ \A p \in Requests :
          pc[p] \in {"phase2", "translating"} => trail[Len(trail)] = "stream"
    /\ (RequestOver /\ resp = "502 No conversationId") =>
          /\ conv_id = ""
          /\ \A i \in 1..Len(trail) : trail[i] = "initiate"
          /\ Len(releases) = 1

\* After a 429 and a structured success with an id, the phase-2 GET is open.
C27_Witness ==
    /\ \E p \in Requests : pc[p] = "phase2" /\ token[p] = "tokA"
    /\ trail = <<"initiate", "initiate", "stream">>
    /\ conv_id = "c1"

\* C28: when a write to the client fails during streaming, the failure does
\* not leave the translator: the handler returns the stream response, and
\* the account is released once as a clean use (lease cleared, error counter
\* not incremented).
C28_DisconnectIsNormalEnd ==
    (mode = "stream" /\ tpc \in {"write_failed", "write_raised"}) =>
        /\ resp = "stream"
        /\ releases = <<"">>
        /\ ~accounts[before.acc].in_use
        /\ accounts[before.acc].error_count <= before.count

\* C29: a request inside the critical section of acquire() is the task the
\* event loop is running and holds the pool lock, so no release and no
\* other acquire runs until it leaves; at most one request is inside; the
\* account that passed the eligibility test is still healthy and unleased
\* when its flag is about to be set; and outside the section the lock is
\* free.
C29_AcquireReleaseAtomic ==
    /\ \A p \in Requests :
          InSection(p) => running = p /\ pool_lock.locked
    /\ Cardinality({p \in Requests : InSection(p)}) <= 1
    /\ \A p \in Requests :
          pc[p] = "tested" =>
              /\ Eligible(accounts[loop[p].acc])
              /\ Holders(loop[p].acc) = {} \/ forced
    /\ running = None =>
          /\ ~pool_lock.locked
          /\ \A p \in Requests : pc[p] \in {"idle", "leased"}

\* A request is about to set the flag of account 1, which passed its test,
\* while the other request holds account 0.
C29_Witness ==
    \E p, q \in Requests :
        /\ pc[p] = "tested" /\ loop[p].acc = 1
        /\ pc[q] = "leased" /\ acc[q] = 0

\* What the pool keeps of an account, and the registry as load() built it.
PoolFields(a) == <<a.in_use, a.error_count>>
Registry(accs) == [a \in DOMAIN accs |-> accs[a].email]

\* A step of some request's ensure_token call: from the call to its return
\* or its exception.
EnsureStep ==
    \E p \in Requests :
        /\ pc[p] \in {"leased", "lock_wait", "woken", "refresh"}
        /\ pc'[p] \in {"lock_wait", "woken", "refresh", "returned", "raised"}
        /\ pc'[p] # pc[p]

\* An acquire() or a release() of some request: the acquire() of a new
\* request (None on an empty registry included), the release after a token
\* error, and the release at the end of the handler.
PoolStep ==
    \E p \in Requests :
        \/ HandleStart(p)
        \/ HandleTokenError(p)
        \/ \E e \in Errors : HandleEnd(p, e)

\* C30: a step of ensure_token, returning or raising, leaves the lease flag
\* and the error counter of every account and the cursor as they were; an
\* acquire() or a release() leaves the access token, its expiry and the
\* rotating credential of every account as they were; and no step changes
\* which accounts the registry holds or their order.
C30_FrameEffects ==
    [][/\ EnsureStep =>
            /\ \A a \in DOMAIN accounts :
                  PoolFields(accounts'[a]) = PoolFields(accounts[a])
            /\ index' = index
       /\ PoolStep =>
            \A a \in DOMAIN accounts :
                TokenFields(accounts'[a]) = TokenFields(accounts[a])
       /\ Registry(accounts') = Registry(accounts)]_vars

\* A refresh has just failed on a leased account that an earlier request
\* released with an error: the lease flag is set, the counter is still one,
\* and the token and rotated credential of the earlier refresh are there.
C30_Witness ==
    \E p \in Requests :
        /\ pc[p] = "raised"
        /\ accounts[acc[p]].in_use
        /\ accounts[acc[p]].error_count = 1
        /\ accounts[acc[p]].access_token = "tokA"
        /\ accounts[acc[p]].refresh_token = "r1"

\* The store holds one record per account of the registry, in its order,
\* with the identity and the current credential of the account.
Stored == file = save(accounts)

\* A refresh returns after it replaced the credential of its account.
RotationReturns ==
    \E p \in Requests :
        /\ pc[p] = "refresh" /\ pc'[p] = "returned"
        /\ accounts'[acc[p]].refresh_token # accounts[acc[p]].refresh_token

\* A refresh replaced the credential of its account and raised: _save()
\* failed.
RotationRaises ==
    \E p \in Requests :
        /\ pc[p] = "refresh" /\ pc'[p] = "raised"
        /\ exc'[p] = "save failed"

\* C31: whatever refreshes are in flight on other accounts, a refresh that
\* returns after a rotation leaves the store with one record per account of
\* the registry, each with the current credential of its account, those
\* rotated by other requests included; and no step other than an
\* ensure_token that raises from _save() makes a store that agrees with the
\* registry disagree with it.  So once all calls have returned, no rotation
\* is lost.
C31_NoLostRotation ==
    [][/\ RotationReturns => Stored'
       /\ (Stored /\ ~RotationRaises) => Stored']_vars

\* Two requests have returned from refreshes of the two accounts, each with a
\* rotation, and the store holds both new credentials.
C31_Witness ==
    /\ \E p, q \in Requests :
          /\ pc[p] = "returned" /\ called[p] /\ acc[p] = 0
          /\ pc[q] = "returned" /\ called[q] /\ acc[q] = 1
    /\ accounts[0].refresh_token = "r1"
    /\ accounts[1].refresh_token = "r1"
    /\ accounts[0].email # accounts[1].email
    /\ file = <<Record(accounts[0].email, "r1"), Record(accounts[1].email, "r1")>>

\* The concatenation of the texts of the content chunks among those written.
RECURSIVE ContentOf(_)
ContentOf(written) ==
    IF written = <<>> THEN <<>>
    ELSE (IF Head(written).kind = "content" THEN Head(written).text ELSE <<>>)
            \o ContentOf(Tail(written))

\* What _collect_response makes of the whole upstream, and what
\* _stream_response writes for it when it arrives as one chunk.
BufferedOf(s) == CollectLines(SplitLines(decode(Wire(s.lines, s.cut)), <<>>), <<>>)
StreamedOf(s) == OneChunk(Wire(s.lines, s.cut))

\* C32 as claimed: when a translator has returned, the concatenation of the
\* content chunks the streaming translator writes for the upstream and the
\* content the buffered translator returns for it are the same text.
C32_ModesAgree ==
    /\ (mode = "stream" /\ tpc = "returned" /\ ~BufferedOf(sent).raises) =>
            ContentOf(out) = BufferedOf(sent).content
    /\ (mode = "buffered" /\ tpc = "returned") =>
            out = <<Chunk("completion", ContentOf(StreamedOf(sent).out))>>

\* C33: the cursor is a position of the registry whenever the registry is not
\* empty; an acquire() that finds no eligible account leaves the cursor where
\* it was, and still no account eligible; and in a run that starts with no
\* eligible account, every acquire() returns the account at the cursor of the
\* start.
C33_ForcedFallbackKeepsCursor ==
    /\ [](/\ Size(accounts) > 0 => index \in 0..(Size(accounts) - 1)
          /\ (Size(accounts) > 0 /\ ~SomeEligible(pre.accounts)) =>
                /\ index = pre.index
                /\ \A i \in 1..Len(log) : log[i] = pre.index)
    /\ [][(SeqAcquire /\ Size(accounts) > 0 /\ ~SomeEligible(accounts)) =>
              /\ index' = index
              /\ ~SomeEligible(accounts')]_vars

\* On three accounts with the cursor at 1, two unhealthy and one leased, three
\* acquires in a row have returned account 1 and the cursor is still at 1.
C33_Witness ==
    /\ Size(accounts) = 3
    /\ pre.index = 1
    /\ ~SomeEligible(pre.accounts)
    /\ ~pre.accounts[1].in_use
    /\ log = <<1, 1, 1>>
    /\ index = 1

\* The positions of written that hold chunk c.
PositionsOf(written, c) == {i \in 1..Len(written) : written[i] = c}

\* The number of content chunks among those written.
ContentCount(written) ==
    Cardinality({i \in 1..Len(written) : written[i].kind = "content"})

\* C34: in streaming mode, at every moment, between any two writes, what has
\* been written holds at most one finish chunk and at most one terminal
\* marker; the terminal marker stands right after the finish chunk; nothing
\* but the terminal marker follows the finish chunk; once the finish chunk
\* is written the translator awaits the write of the terminal marker or has
\* ended; and there are no more content chunks than text-delta events before
\* the first end-of-stream marker of the upstream.
C34_SingleCompletion ==
    mode = "stream" =>
        /\ Cardinality(PositionsOf(out, FinishChunk)) <= 1
        /\ Cardinality(PositionsOf(out, DoneMarker)) <= 1
        /\ \A i \in PositionsOf(out, DoneMarker) :
              i > 1 /\ out[i - 1] = FinishChunk /\ i = Len(out)
        /\ \A i \in PositionsOf(out, FinishChunk) :
              \A j \in (i + 1)..Len(out) : out[j] = DoneMarker
        /\ PositionsOf(out, FinishChunk) # {} =>
              tpc \in {"write_done", "returned", "write_failed"}
        /\ PositionsOf(out, DoneMarker) # {} => tpc = "returned"
        /\ ContentCount(out) <= Len(Deltas(UpToDone(sent.lines)))

\* The upstream sent a text delta, the end-of-stream marker and another text
\* delta, and closed: one content chunk was written, then the finish chunk
\* and the terminal marker, and the bytes after the marker were not read.
C34_Witness ==
    /\ mode = "stream"
    /\ tpc = "returned"
    /\ sent = [lines |-> <<"deltaH", "done", "deltaH">>, cut |-> FALSE]
    /\ pos < Len(Wire(sent.lines, sent.cut))
    /\ out = <<RoleChunk, Chunk("content", <<"H">>), FinishChunk, DoneMarker>>

=============================================================================
